---- MODULE Spec2Model ----
(***************************************************************************)
(* vibe-check: the scan aggregation and scoring engine (ReportGenerator),  *)
(* the AI summary artifact it reads, and the two comprehensive commands    *)
(* (scanAll, comprehensiveVibe) that build the scan ledger and hand it to  *)
(* the report generator.                                                   *)
(*                                                                         *)
(* Text is modelled as a sequence of one-character strings, so that the    *)
(* regular expressions of parseAiAnalysis act on characters.               *)
(***************************************************************************)
EXTENDS Integers, Sequences, FiniteSets, TLC

\* ---------------------------------------------------------------- bounds
\* longest ledger drawn for the scoring engine on its own
MaxLedger == 2
\* longest ledger drawn for a whole generateReport call (next to the scenario ledgers)
MaxReportLedger == 1
\* most priority items the AI puts in one executive summary
MaxPrio == 2
\* minutes that may pass before one generateReport call: none or one
Ticks == {0, 1}

\* ================================================================ state
VARIABLES
  scanResults,   \* the scan ledger: the ScanResult[] handed to the report generator
  summaryFile,   \* what is at <artifactsDir>/ai/summary.md
  includeAi,     \* the includeAi argument of generateReport
  now,           \* the clock, in minutes since the ReportGenerator was constructed
  reports,       \* the reports generateReport has returned so far, oldest first
  scores,        \* the last result of calculateScores on its own, or undefinedObject
  recommendations, \* the last result of generateRecommendations on its own
  findings,      \* the last result of aggregateFindings on its own
  command,       \* the comprehensive command that runs: "scanAll", "comprehensiveVibe", or "none"
  pc,            \* the step the command is at
  opts,          \* the command's options: [noAi]
  config,        \* vibe.yaml and the environment: [appUrl, ai, aiCriticalToFail]
  argv,          \* process.argv after the program name
  hasErrors,     \* the command's hasErrors
  exitStatus,    \* how the process stands: running, exited with a code, returned, rejected
  invoked,       \* the scanners whose process this run has spawned or tried to spawn
  processFailed, \* the scanners whose process exited non-zero or could not be started
  uiTestResult,  \* comprehensiveVibe's uiTestResult: [failed]
  summaryJson,   \* what is at <artifactsDir>/security-summary.json
  reportMd,      \* what is at <artifactsDir>/security-report.md
  artifacts,     \* the scanner output files of the artifacts directory a ScanParser reads
  tally,         \* the last result of a ScanParser method: [by, value], or undefinedObject
  installer,     \* tool installation: [missing, attempts, prompts]
  usageFile,     \* what is at <artifactsDir>/ai/total-usage.json
  totalUsage,    \* the totalUsage of the AiService in use, or undefinedObject
  aiCalls        \* the usage each AI call of this run returned, oldest first

reportVars == <<scanResults, summaryFile, includeAi, now, reports>>
scoreVars == <<scores, recommendations, findings>>
runVars == <<command, pc, opts, config, argv, hasErrors, exitStatus, invoked, processFailed,
             uiTestResult, summaryJson, reportMd>>

parserVars == <<artifacts, tally>>

installVars == <<installer>>
usageVars == <<usageFile, totalUsage, aiCalls>>

vars == <<reportVars, scoreVars, runVars, parserVars, installVars, usageVars>>

\* ---------------------------------------------------------------- values
\* JavaScript's undefined where a string is expected, and where an object is
undefined == "undefined"
undefinedObject == [undefined |-> TRUE]
\* the result of a regular expression that does not match
null == [null |-> TRUE]
\* a path with no file behind it
NoFile == [exists |-> FALSE]
File(content) == [exists |-> TRUE, content |-> content]

\* tool identities: the five scanners, the "docker" alias of the web scan,
\* and one identity no switch in the report generator knows
Tools == {"semgrep", "gitleaks", "trivy", "osv-scanner", "zap", "docker", "eslint"}

Statuses == {"SUCCESS", "FAILED", "SKIPPED"}

ZeroTally == [total |-> 0, critical |-> 0, high |-> 0, medium |-> 0, low |-> 0, info |-> 0]

\* interface ScanResult
ScanResult(tool, status, count, error, additionalData) ==
  [tool |-> tool, status |-> status, findings |-> count, error |-> error,
   additionalData |-> additionalData]

\* the tally of n findings, all of high severity
HighTally(n) == [ZeroTally EXCEPT !.total = n, !.high = n]

\* an outcome as the commands build it: a tally of n findings goes with a
\* success and an error text with a failure
Outcome(tool, status, n) ==
  ScanResult(tool, status,
             IF status = "SUCCESS" THEN n ELSE 0,
             IF status = "FAILED" THEN "Error" ELSE undefined,
             IF status = "SUCCESS" THEN HighTally(n) ELSE undefinedObject)

\* the outcomes a ledger is drawn from; a successful scan reports one finding
Outcomes == {Outcome(t, s, 1) : t \in Tools, s \in Statuses}

RECURSIVE SeqsUpTo(_, _)
SeqsUpTo(S, n) ==
  IF n = 0 THEN {<<>>}
  ELSE LET shorter == SeqsUpTo(S, n - 1)
       IN shorter \cup {Append(l, x) : l \in {m \in shorter : Len(m) = n - 1}, x \in S}

Min(a, b) == IF a <= b THEN a ELSE b
Max(a, b) == IF a >= b THEN a ELSE b

\* Math.round(max * tenths / 10) for a non-negative integer max
RoundTenths(max, tenths) == (2 * max * tenths + 10) \div 20

\* ------------------------------------------------------- calculateScores
InitialCategories ==
  [staticAnalysis |-> [score |-> 0, max |-> 25, status |-> "FAILED"],
   secretDetection |-> [score |-> 0, max |-> 20, status |-> "FAILED"],
   dependencySecurity |-> [score |-> 0, max |-> 25, status |-> "FAILED"],
   webSecurity |-> [score |-> 0, max |-> 20, status |-> "FAILED"],
   toolCoverage |-> [score |-> 0, max |-> 10, status |-> "FAILED"]]

CategoryNames == DOMAIN InitialCategories

\* a faulty variant: it credits a tool whatever the status of its outcome
creditTool_anyStatus(categories, result) ==
  CASE result.tool = "semgrep" ->
         [categories EXCEPT !.staticAnalysis.score = categories.staticAnalysis.max,
                            !.staticAnalysis.status = "EXCELLENT"]
    [] result.tool = "gitleaks" ->
         [categories EXCEPT !.secretDetection.score = categories.secretDetection.max,
                            !.secretDetection.status = "EXCELLENT"]
    [] result.tool = "trivy" ->
         [categories EXCEPT !.dependencySecurity.score = @ + 12]
    [] result.tool = "osv-scanner" ->
         [categories EXCEPT !.dependencySecurity.score = @ + 13]
    [] result.tool \in {"docker", "zap"} ->
         [categories EXCEPT !.webSecurity.score = categories.webSecurity.max,
                            !.webSecurity.status = "EXCELLENT"]
    [] OTHER -> categories

\* the body of the for loop: one result credited by tool identity
creditTool(categories, result) ==
  IF result.status # "SUCCESS" THEN categories
  ELSE CASE result.tool = "semgrep" ->
              [categories EXCEPT !.staticAnalysis.score = categories.staticAnalysis.max,
                                 !.staticAnalysis.status = "EXCELLENT"]
         [] result.tool = "gitleaks" ->
              [categories EXCEPT !.secretDetection.score = categories.secretDetection.max,
                                 !.secretDetection.status = "EXCELLENT"]
         [] result.tool = "trivy" ->
              [categories EXCEPT !.dependencySecurity.score = @ + 12]
         [] result.tool = "osv-scanner" ->
              [categories EXCEPT !.dependencySecurity.score = @ + 13]
         [] result.tool \in {"docker", "zap"} ->
              [categories EXCEPT !.webSecurity.score = categories.webSecurity.max,
                                 !.webSecurity.status = "EXCELLENT"]
         [] OTHER -> categories

RECURSIVE creditTools(_, _)
creditTools(categories, results) ==
  IF results = <<>> THEN categories
  ELSE creditTools(creditTool(categories, Head(results)), Tail(results))

successfulTools(results) ==
  Cardinality({i \in DOMAIN results : results[i].status = "SUCCESS"})

\* a faulty variant: its thresholds are exclusive
coverageCategory_exclusive(category, successful, totalTools) ==
  IF totalTools > 0 /\ successful * 100 > 80 * totalTools
    THEN [category EXCEPT !.score = category.max, !.status = "EXCELLENT"]
  ELSE IF totalTools > 0 /\ successful * 100 > 60 * totalTools
    THEN [category EXCEPT !.score = RoundTenths(category.max, 8), !.status = "GOOD"]
  ELSE IF totalTools > 0 /\ successful * 100 > 40 * totalTools
    THEN [category EXCEPT !.score = RoundTenths(category.max, 6), !.status = "FAIR"]
  ELSE [category EXCEPT !.score = 0, !.status = "FAILED"]

\* the coverage step; 0 / 0 is NaN in the source and every comparison with
\* NaN is false, which is the last branch
coverageCategory(category, successful, totalTools) ==
  IF totalTools > 0 /\ successful * 100 >= 80 * totalTools
    THEN [category EXCEPT !.score = category.max, !.status = "EXCELLENT"]
  ELSE IF totalTools > 0 /\ successful * 100 >= 60 * totalTools
    THEN [category EXCEPT !.score = RoundTenths(category.max, 8), !.status = "GOOD"]
  ELSE IF totalTools > 0 /\ successful * 100 >= 40 * totalTools
    THEN [category EXCEPT !.score = RoundTenths(category.max, 6), !.status = "FAIR"]
  ELSE [category EXCEPT !.score = 0, !.status = "FAILED"]

\* a faulty variant: it caps the score and keeps the status set during attribution
capCategory_keepStatus(category) ==
  [category EXCEPT !.score = Min(category.score, category.max)]

\* a faulty variant: it leaves a category's score uncapped
capCategory_uncapped(category) ==
  LET score == category.score
  IN [category EXCEPT !.score = score,
                      !.status = IF score >= category.max THEN "EXCELLENT"
                                 ELSE IF 10 * score >= 8 * category.max THEN "GOOD"
                                 ELSE IF 10 * score >= 6 * category.max THEN "FAIR"
                                 ELSE "FAILED"]

\* the body of the forEach that caps a score and sets its status
capCategory(category) ==
  LET score == Min(category.score, category.max)
  IN [category EXCEPT !.score = score,
                      !.status = IF score >= category.max THEN "EXCELLENT"
                                 ELSE IF 10 * score >= 8 * category.max THEN "GOOD"
                                 ELSE IF 10 * score >= 6 * category.max THEN "FAIR"
                                 ELSE "FAILED"]

sumScores(categories) ==
  categories.staticAnalysis.score + categories.secretDetection.score
    + categories.dependencySecurity.score + categories.webSecurity.score
    + categories.toolCoverage.score

\* a faulty variant: it keeps the categories of the previous call instead of fresh ones
calculateScores_shared(results) ==
  LET start == IF reports = <<>> THEN InitialCategories
               ELSE reports[Len(reports)].categoryScores
      credited == creditTools(start, results)
      covered == [credited EXCEPT !.toolCoverage =
                    coverageCategory(@, successfulTools(results), Len(results))]
      categories == [k \in CategoryNames |-> capCategory(covered[k])]
  IN [categories |-> categories, total |-> Min(100, sumScores(categories))]

calculateScores(results) ==
  LET credited == creditTools(InitialCategories, results)
      covered == [credited EXCEPT !.toolCoverage =
                    coverageCategory(@, successfulTools(results), Len(results))]
      categories == [k \in CategoryNames |-> capCategory(covered[k])]
  IN [categories |-> categories, total |-> Min(100, sumScores(categories))]

getGrade(score) ==
  IF score >= 90 THEN "Excellent"
  ELSE IF score >= 80 THEN "Good"
  ELSE IF score >= 70 THEN "Fair"
  ELSE IF score >= 60 THEN "Poor"
  ELSE "Critical"

\* ------------------------------------------------------------------ text
\* the characters that need a name
NL == "\n"
CR == "\r"
TAB == "\t"
BS == "\\"
DQ == "\""

\* \s of a regular expression, and the characters "." does not match
WhiteSpace == {" ", NL, CR, TAB}
LineTerminators == {NL, CR}

\* the literals of the source, as text
TxtPriorities == <<"#", "#", " ", "P", "r", "i", "o", "r", "i", "t", "i", "e", "s">>
TxtRecommendations == <<"#", "#", " ", "R", "e", "c", "o", "m", "m", "e", "n", "d", "a", "t", "i", "o", "n", "s">>
TxtPrioritiesHead == <<NL, NL, "#", "#", " ", "P", "r", "i", "o", "r", "i", "t", "i", "e", "s", NL>>
TxtRecommendationsHead == <<NL, NL, "#", "#", " ", "R", "e", "c", "o", "m", "m", "e", "n", "d", "a", "t", "i", "o", "n", "s", NL>>
TxtItemOpen == <<"-", " ", "*", "*">>
TxtLevelOpen == <<"*", "*">>
TxtLevelClose == <<"*", "*", ":", " ">>
TxtDash == <<"-", " ">>

\* "P0" as text, and back
LevelText(level) ==
  CASE level = "P0" -> <<"P", "0">> [] level = "P1" -> <<"P", "1">> [] level = "P2" -> <<"P", "2">>
LevelOfDigit(d) ==
  CASE d = "0" -> "P0" [] d = "1" -> "P1" [] d = "2" -> "P2"

\* does text p occur in s at position i
OccursAt(s, p, i) ==
  /\ i >= 1
  /\ i + Len(p) - 1 <= Len(s)
  /\ \A k \in 1..Len(p) : s[i + k - 1] = p[k]

\* String.prototype.indexOf from position i on, 0 when absent
RECURSIVE IndexOfFrom(_, _, _)
IndexOfFrom(s, p, i) ==
  IF i + Len(p) - 1 > Len(s) THEN 0
  ELSE IF OccursAt(s, p, i) THEN i
  ELSE IndexOfFrom(s, p, i + 1)

\* the last position of the longest run from i on of characters outside stop
\* (i - 1 when there is none): a greedy [^...]+ or \s*
RECURSIVE RunEnd(_, _, _)
RunEnd(s, i, stop) ==
  IF i > Len(s) \/ s[i] \in stop THEN i - 1 ELSE RunEnd(s, i + 1, stop)

RECURSIVE WsRunEnd(_, _)
WsRunEnd(s, i) ==
  IF i > Len(s) \/ s[i] \notin WhiteSpace THEN i - 1 ELSE WsRunEnd(s, i + 1)

RECURSIVE TrimStart(_)
TrimStart(s) == IF s # <<>> /\ Head(s) \in WhiteSpace THEN TrimStart(Tail(s)) ELSE s

RECURSIVE TrimEnd(_)
TrimEnd(s) ==
  IF s # <<>> /\ s[Len(s)] \in WhiteSpace THEN TrimEnd(SubSeq(s, 1, Len(s) - 1)) ELSE s

\* String.prototype.trim
Trim(s) == TrimEnd(TrimStart(s))

\* s.replace(/"/g, "")
RemoveQuotes(s) == SelectSeq(s, LAMBDA c : c # DQ)

RECURSIVE Join(_, _)
Join(parts, sep) ==
  IF parts = <<>> THEN <<>>
  ELSE IF Len(parts) = 1 THEN parts[1]
  ELSE parts[1] \o sep \o Join(Tail(parts), sep)

\* JSON.stringify of a string: quoted, with quote, backslash and newline escaped
RECURSIVE JsonEscape(_)
JsonEscape(s) ==
  IF s = <<>> THEN <<>>
  ELSE (CASE Head(s) = DQ -> <<BS, DQ>>
          [] Head(s) = BS -> <<BS, BS>>
          [] Head(s) = NL -> <<BS, "n">>
          [] Head(s) = CR -> <<BS, "r">>
          [] Head(s) = TAB -> <<BS, "t">>
          [] OTHER -> <<Head(s)>>) \o JsonEscape(Tail(s))

JsonStringify(s) == <<DQ>> \o JsonEscape(s) \o <<DQ>>

\* ------------------------------------------- generateExecutiveSummary
\* one "- **P0**: description" line
renderPriority(p) == TxtItemOpen \o LevelText(p.level) \o TxtLevelClose \o p.description

renderRecommendation(r) == TxtDash \o r

\* the markdown text generateExecutiveSummary assembles from the AI's object
renderSummary(summaryObj) ==
  summaryObj.summary
    \o TxtPrioritiesHead
    \o Join([i \in DOMAIN summaryObj.priorities |-> renderPriority(summaryObj.priorities[i])], <<NL>>)
    \o TxtRecommendationsHead
    \o Join([i \in DOMAIN summaryObj.recommendations |->
               renderRecommendation(summaryObj.recommendations[i])], <<NL>>)

\* saveArtifact("summary.md", ...): the content written to ai/summary.md
saveArtifact(data) == JsonStringify(data)

\* ----------------------------------------------------- parseAiAnalysis
\* the characters [^\\n] excludes: the backslash and the letter n
PriorityStop == {BS, "n"}

\* /- \*\*(P[012])\*\*: ([^\\n]+)/ matches at position i
PriorityLineAt(s, i) ==
  /\ OccursAt(s, TxtItemOpen, i)
  /\ i + 10 <= Len(s)
  /\ s[i + 4] = "P"
  /\ s[i + 5] \in {"0", "1", "2"}
  /\ OccursAt(s, TxtLevelClose, i + 6)
  /\ s[i + 10] \notin PriorityStop

\* summary.match(/- \*\*(P[012])\*\*: ([^\\n]+)/g) || []
RECURSIVE priorityMatchesFrom(_, _)
priorityMatchesFrom(s, i) ==
  IF i > Len(s) THEN <<>>
  ELSE IF PriorityLineAt(s, i)
    THEN LET e == RunEnd(s, i + 10, PriorityStop)
         IN <<SubSeq(s, i, e)>> \o priorityMatchesFrom(s, e + 1)
  ELSE priorityMatchesFrom(s, i + 1)

\* /\*\*(P[012])\*\*: (.+)/ matches at position j
PriorityItemAt(m, j) ==
  /\ OccursAt(m, TxtLevelOpen, j)
  /\ j + 8 <= Len(m)
  /\ m[j + 2] = "P"
  /\ m[j + 3] \in {"0", "1", "2"}
  /\ OccursAt(m, TxtLevelClose, j + 4)
  /\ m[j + 8] \notin LineTerminators

RECURSIVE PriorityItemFrom(_, _)
PriorityItemFrom(m, j) ==
  IF j > Len(m) THEN 0
  ELSE IF PriorityItemAt(m, j) THEN j
  ELSE PriorityItemFrom(m, j + 1)

\* the body of the loop over priorityMatches: the items one match adds
priorityOfMatch(m) ==
  LET j == PriorityItemFrom(m, 1)
  IN IF j = 0 THEN <<>>
     ELSE <<[level |-> LevelOfDigit(m[j + 3]),
             description |-> Trim(SubSeq(m, j + 8, RunEnd(m, j + 8, LineTerminators)))]>>

RECURSIVE FlatMap(_, _)
FlatMap(F(_), xs) == IF xs = <<>> THEN <<>> ELSE F(Head(xs)) \o FlatMap(F, Tail(xs))

parsePriorities(summary) == FlatMap(priorityOfMatch, priorityMatchesFrom(summary, 1))

\* /## Recommendations\s*\n([\s\S]*?)(?:\n##|$)/: the match, or null.
\* \s*\n gives back whitespace up to the last newline of the whitespace run.
RECURSIVE LastNewline(_, _, _)
LastNewline(s, from, to) ==
  IF to < from THEN 0
  ELSE IF s[to] = NL THEN to
  ELSE LastNewline(s, from, to - 1)

RECURSIVE recommendationsMatchFrom(_, _)
recommendationsMatchFrom(s, i) ==
  LET h == IndexOfFrom(s, TxtRecommendations, i)
  IN IF h = 0 THEN null
     ELSE LET from == h + Len(TxtRecommendations)
              nl == LastNewline(s, from, WsRunEnd(s, from))
          IN IF nl = 0 THEN recommendationsMatchFrom(s, h + 1)
             ELSE LET stop == IndexOfFrom(s, <<NL, "#", "#">>, nl + 1)
                  IN [capture |-> SubSeq(s, nl + 1, IF stop = 0 THEN Len(s) ELSE stop - 1)]

\* recText.match(/- ([^\\n]+)/g) || []
RECURSIVE recMatchesFrom(_, _)
recMatchesFrom(s, i) ==
  IF i > Len(s) THEN <<>>
  ELSE IF OccursAt(s, TxtDash, i) /\ i + 2 <= Len(s) /\ s[i + 2] \notin PriorityStop
    THEN LET e == RunEnd(s, i + 2, PriorityStop)
         IN <<SubSeq(s, i, e)>> \o recMatchesFrom(s, e + 1)
  ELSE recMatchesFrom(s, i + 1)

recOfMatch(recMatch) ==
  LET rec == Trim(SubSeq(recMatch, 3, Len(recMatch)))
  IN IF rec = <<>> THEN <<>> ELSE <<rec>>

parseRecommendations(summary) ==
  LET recommendationsMatch == recommendationsMatchFrom(summary, 1)
  IN IF recommendationsMatch = null THEN <<>>
     ELSE FlatMap(recOfMatch, recMatchesFrom(recommendationsMatch.capture, 1))

\* summary.split("## Priorities")[0].trim()
summaryHead(summary) ==
  LET h == IndexOfFrom(summary, TxtPriorities, 1)
  IN Trim(IF h = 0 THEN summary ELSE SubSeq(summary, 1, h - 1))

\* parseAiAnalysis, given what is at ai/summary.md
parseAiAnalysis(summaryPath) ==
  IF ~summaryPath.exists THEN undefinedObject
  ELSE LET summary == Trim(RemoveQuotes(summaryPath.content))
           priorities == parsePriorities(summary)
       IN [summary |-> summaryHead(summary),
           priorities |-> priorities,
           recommendations |-> parseRecommendations(summary),
           criticalIssues |-> Cardinality({i \in DOMAIN priorities : priorities[i].level = "P0"})]

\* ------------------------------------------- generateRecommendations
\* a faulty variant: it also tells to start Docker when the web scan failed
failedHint_webScan(tool) ==
  CASE tool = "osv-scanner" -> <<"Update Go to version 1.23+ to enable OSV-Scanner">>
    [] tool = "semgrep" -> <<"Install semgrep: brew install semgrep">>
    [] tool = "gitleaks" -> <<"Install gitleaks: brew install gitleaks">>
    [] tool = "trivy" -> <<"Install trivy: brew install trivy">>
    [] tool \in {"docker", "zap"} ->
         <<"Start Docker daemon to enable OWASP ZAP web security testing">>
    [] OTHER -> <<>>

\* the switch over a failed tool
failedHint(tool) ==
  CASE tool = "osv-scanner" -> <<"Update Go to version 1.23+ to enable OSV-Scanner">>
    [] tool = "semgrep" -> <<"Install semgrep: brew install semgrep">>
    [] tool = "gitleaks" -> <<"Install gitleaks: brew install gitleaks">>
    [] tool = "trivy" -> <<"Install trivy: brew install trivy">>
    [] OTHER -> <<>>

\* the switch over a skipped tool
skippedHint(tool) ==
  IF tool \in {"docker", "zap"}
    THEN <<"Start Docker daemon to enable OWASP ZAP web security testing">>
    ELSE <<>>

hintOfFailed(result) == failedHint(result.tool)
hintOfSkipped(result) == skippedHint(result.tool)

\* a faulty variant: it asks for a re-run when a tool failed, not when an
\* immediate hint exists
generateRecommendations_rerunOnFailure(results) ==
  LET failed == SelectSeq(results, LAMBDA r : r.status = "FAILED")
      skipped == SelectSeq(results, LAMBDA r : r.status = "SKIPPED")
      immediate == FlatMap(hintOfFailed, failed) \o FlatMap(hintOfSkipped, skipped)
  IN [immediate |-> immediate,
      shortTerm |-> (IF Len(failed) > 0
                       THEN <<"Re-run comprehensive scan after fixing tool issues">>
                       ELSE <<>>)
                    \o <<"Integrate security scanning into CI/CD pipeline",
                         "Set up automated security monitoring">>,
      longTerm |-> <<"Implement automated security monitoring",
                     "Schedule regular dependency updates",
                     "Add security training for development team">>]

generateRecommendations(results) ==
  LET failed == SelectSeq(results, LAMBDA r : r.status = "FAILED")
      skipped == SelectSeq(results, LAMBDA r : r.status = "SKIPPED")
      immediate == FlatMap(hintOfFailed, failed) \o FlatMap(hintOfSkipped, skipped)
  IN [immediate |-> immediate,
      shortTerm |-> (IF Len(immediate) > 0
                       THEN <<"Re-run comprehensive scan after fixing tool issues">>
                       ELSE <<>>)
                    \o <<"Integrate security scanning into CI/CD pipeline",
                         "Set up automated security monitoring">>,
      longTerm |-> <<"Implement automated security monitoring",
                     "Schedule regular dependency updates",
                     "Add security training for development team">>]

\* ---------------------------------------------------- aggregateFindings
\* the object {} (truthy, with no counts)
EmptyObject == [empty |-> TRUE]

\* findings.<field> || 0
CountOf(counts, field) == IF field \in DOMAIN counts THEN counts[field] ELSE 0

\* a faulty variant: it adds a raw count to the total and to no severity
addFindings_rawUnattributed(sum, result) ==
  IF result.additionalData # undefinedObject
    THEN [f \in DOMAIN ZeroTally |-> sum[f] + CountOf(result.additionalData, f)]
    ELSE [sum EXCEPT !.total = @ + result.findings]

\* the body of the for loop: one result added to the running sums
addFindings(sum, result) ==
  IF result.additionalData # undefinedObject
    THEN [f \in DOMAIN ZeroTally |-> sum[f] + CountOf(result.additionalData, f)]
    ELSE [sum EXCEPT !.total = @ + result.findings,
                     !.medium = @ + (IF result.findings > 0 THEN result.findings ELSE 0)]

RECURSIVE addAllFindings(_, _)
addAllFindings(sum, results) ==
  IF results = <<>> THEN sum
  ELSE addAllFindings(addFindings(sum, Head(results)), Tail(results))

aggregateFindings(results) == addAllFindings(ZeroTally, results)

\* ------------------------------------------------------ generateReport
\* a faulty variant: it charges a P1 item like a P2 item
priorityPenalty_flat(level) ==
  CASE level = "P0" -> 15
    [] level = "P1" -> 5
    [] level = "P2" -> 5
    [] OTHER -> 0

\* the switch over priority.level
priorityPenalty(level) ==
  CASE level = "P0" -> 15
    [] level = "P1" -> 10
    [] level = "P2" -> 5
    [] OTHER -> 0

RECURSIVE aiPenalty(_)
aiPenalty(priorities) ==
  IF priorities = <<>> THEN 0
  ELSE priorityPenalty(Head(priorities).level) + aiPenalty(Tail(priorities))

\* a faulty variant: it subtracts the penalty without the floor at zero
adjustTotal_unfloored(total, aiAnalysis) ==
  IF aiAnalysis = undefinedObject THEN total
  ELSE total - aiPenalty(aiAnalysis.priorities)

\* "Adjust score based on AI findings": scores.total after the if (aiAnalysis) block
adjustTotal(total, aiAnalysis) ==
  IF aiAnalysis = undefinedObject THEN total
  ELSE Max(total - aiPenalty(aiAnalysis.priorities), 0)

\* the overallScore object of the report
overallScore(total) ==
  [total |-> total,
   maxPossible |-> 100,
   grade |-> getGrade(total),
   status |-> IF total >= 70 THEN "PASSED" ELSE "FAILED"]

\* a faulty variant: it derives grade and status before the penalty is applied
generateReport_gradeBeforePenalty(results, includeAiArg, aiUsageArg, summaryPath, startTime, endTime) ==
  LET scores_ == calculateScores(results)
      aiAnalysis == IF includeAiArg THEN parseAiAnalysis(summaryPath) ELSE undefinedObject
      total == adjustTotal(scores_.total, aiAnalysis)
  IN [metadata |-> [scanDate |-> endTime,
                    scanTime |-> endTime,
                    vibeVersion |-> "0.1.0",
                    scanDurationMinutes |-> Max(endTime - startTime, 1)],
      overallScore |-> [overallScore(scores_.total) EXCEPT !.total = total],
      categoryScores |-> scores_.categories,
      tools |-> results,
      findings |-> aggregateFindings(results),
      recommendations |-> generateRecommendations(results),
      aiAnalysis |-> aiAnalysis,
      aiUsage |-> aiUsageArg]

\* generateReport(scanResults, projectPath, includeAi, aiUsage) of a generator
\* created at minute startTime, called at minute endTime, with summaryPath at
\* <artifactsDir>/ai/summary.md
generateReport(results, includeAiArg, aiUsageArg, summaryPath, startTime, endTime) ==
  LET scores_ == calculateScores(results)
      aiAnalysis == IF includeAiArg THEN parseAiAnalysis(summaryPath) ELSE undefinedObject
      total == adjustTotal(scores_.total, aiAnalysis)
  IN [metadata |-> [scanDate |-> endTime,
                    scanTime |-> endTime,
                    vibeVersion |-> "0.1.0",
                    scanDurationMinutes |-> Max(endTime - startTime, 1)],
      overallScore |-> overallScore(total),
      categoryScores |-> scores_.categories,
      tools |-> results,
      findings |-> aggregateFindings(results),
      recommendations |-> generateRecommendations(results),
      aiAnalysis |-> aiAnalysis,
      aiUsage |-> aiUsageArg]

\* ============================================================ ScanParser
\* JSON values as JSON.parse returns them; a string is its code points, in order
JNull == [null |-> TRUE]
JNum(n) == [number |-> n]
JStr(codePoints) == [string |-> codePoints]
JArr(items) == [array |-> items]
JObj(fields) == [object |-> fields]

IsString(v) == DOMAIN v = {"string"}
IsArray(v) == DOMAIN v = {"array"}
IsObject(v) == DOMAIN v = {"object"}

\* undefined or null: a property access on it throws a TypeError
Nullish(v) == v = undefinedObject \/ v = JNull

\* the code points outside the basic plane: two UTF-16 code units each
Astral == {"U+1F600"}

\* s.length: the number of UTF-16 code units
RECURSIVE CodeUnits(_)
CodeUnits(codePoints) ==
  IF codePoints = <<>> THEN 0
  ELSE (IF Head(codePoints) \in Astral THEN 2 ELSE 1) + CodeUnits(Tail(codePoints))

\* v.key of a value that is not nullish
Get(v, key) ==
  IF IsObject(v) /\ key \in DOMAIN v.object THEN v.object[key] ELSE undefinedObject

\* v?.key
OptGet(v, key) == IF Nullish(v) THEN undefinedObject ELSE Get(v, key)

\* v?.[0]: the first item of an array, the first code unit of a string
OptIndex0(v) ==
  IF Nullish(v) THEN undefinedObject
  ELSE IF IsArray(v) THEN (IF v.array = <<>> THEN undefinedObject ELSE v.array[1])
  ELSE IF IsString(v)
    THEN (IF v.string = <<>> THEN undefinedObject
          ELSE IF v.string[1] \in Astral THEN JStr(<<"U+D83D">>)
          ELSE JStr(<<v.string[1]>>))
  ELSE Get(v, "0")

\* whether a value is falsy: v || [] is then []
Falsy(v) ==
  \/ Nullish(v)
  \/ v = JNum(0)
  \/ v = JStr(<<>>)
  \/ v = [bool |-> FALSE]

OrEmptyArray(v) == IF Falsy(v) THEN JArr(<<>>) ELSE v

\* for (const x of v) works on arrays and strings and throws on anything else
Iterable(v) == IsArray(v) \/ IsString(v)

\* what for...of visits: the items of an array, the code points of a string
Iterate(v) ==
  IF IsArray(v) THEN v.array
  ELSE [i \in DOMAIN v.string |-> JStr(<<v.string[i]>>)]

\* v.length of an array or a string
LengthOf(v) == IF IsArray(v) THEN Len(v.array) ELSE CodeUnits(v.string)

\* toLowerCase of one code point
LowerOf(c) ==
  CASE c = "E" -> "e"
    [] c = "R" -> "r"
    [] c = "O" -> "o"
    [] c = "H" -> "h"
    [] c = "I" -> "i"
    [] c = "G" -> "g"
    [] OTHER -> c

\* severity?.toLowerCase() throws when severity is neither nullish nor a string
LowerThrows(v) == ~Nullish(v) /\ ~IsString(v)

\* severity?.toLowerCase(): undefined, or the lower-cased text
ToLowerCase(v) ==
  IF Nullish(v) THEN undefinedObject
  ELSE JStr([i \in DOMAIN v.string |-> LowerOf(v.string[i])])

TxtError == JStr(<<"e", "r", "r", "o", "r">>)
TxtCritical == JStr(<<"c", "r", "i", "t", "i", "c", "a", "l">>)
TxtWarning == JStr(<<"w", "a", "r", "n", "i", "n", "g">>)
TxtHigh == JStr(<<"h", "i", "g", "h">>)
TxtMedium == JStr(<<"m", "e", "d", "i", "u", "m">>)
TxtLow == JStr(<<"l", "o", "w">>)
TxtNote == JStr(<<"n", "o", "t", "e">>)
TxtInfo == JStr(<<"i", "n", "f", "o">>)

\* the counters after the loop, from the bucket of each visited item
CountBuckets(buckets, length) ==
  [total |-> length,
   critical |-> Cardinality({i \in DOMAIN buckets : buckets[i] = "critical"}),
   high |-> Cardinality({i \in DOMAIN buckets : buckets[i] = "high"}),
   medium |-> Cardinality({i \in DOMAIN buckets : buckets[i] = "medium"}),
   low |-> Cardinality({i \in DOMAIN buckets : buckets[i] = "low"}),
   info |-> Cardinality({i \in DOMAIN buckets : buckets[i] = "info"})]

\* JSON.parse(fs.readFileSync(file)) of a file that exists: it throws on text
\* that is not JSON and returns the value otherwise
JsonParseThrows(file) == ~file.valid
JsonParse(file) == file.data

\* result.extra?.severity of semgrep
semgrepSeverity(result) == OptGet(Get(result, "extra"), "severity")

\* the switch of parseSemgrepResults
semgrepBucket(severity) ==
  CASE severity \in {TxtError, TxtCritical} -> "critical"
    [] severity \in {TxtWarning, TxtHigh} -> "high"
    [] severity = TxtMedium -> "medium"
    [] severity = TxtLow -> "low"
    [] OTHER -> "info"

parseSemgrepResults(file) ==
  IF ~file.exists THEN ZeroTally
  ELSE IF JsonParseThrows(file) \/ Nullish(JsonParse(file)) THEN ZeroTally
  ELSE LET results == OrEmptyArray(Get(JsonParse(file), "results"))
       IN IF ~Iterable(results) THEN ZeroTally
          ELSE LET items == Iterate(results)
               IN IF \E i \in DOMAIN items :
                       Nullish(items[i]) \/ LowerThrows(semgrepSeverity(items[i]))
                    THEN ZeroTally
                    ELSE CountBuckets(
                           [i \in DOMAIN items |->
                              semgrepBucket(ToLowerCase(semgrepSeverity(items[i])))],
                           LengthOf(results))

\* a faulty variant: it counts the entries as medium, as the report does with raw counts
parseGitleaksResults_medium(file) ==
  IF ~file.exists THEN ZeroTally
  ELSE IF JsonParseThrows(file) THEN ZeroTally
  ELSE LET results == IF IsArray(JsonParse(file)) THEN JsonParse(file) ELSE JArr(<<>>)
       IN [ZeroTally EXCEPT !.total = LengthOf(results), !.medium = LengthOf(results)]

parseGitleaksResults(file) ==
  IF ~file.exists THEN ZeroTally
  ELSE IF JsonParseThrows(file) THEN ZeroTally
  ELSE LET results == IF IsArray(JsonParse(file)) THEN JsonParse(file) ELSE JArr(<<>>)
       IN [ZeroTally EXCEPT !.total = LengthOf(results), !.high = LengthOf(results)]

\* vuln.severity?.[0]?.severity of osv-scanner
osvSeverity(vuln) == OptGet(OptIndex0(Get(vuln, "severity")), "severity")

\* the switch of parseOsvResults
osvBucket(severity) ==
  CASE severity = TxtCritical -> "critical"
    [] severity = TxtHigh -> "high"
    [] severity = TxtMedium -> "medium"
    [] severity = TxtLow -> "low"
    [] OTHER -> "info"

parseOsvResults(file) ==
  IF ~file.exists THEN ZeroTally
  ELSE IF JsonParseThrows(file) \/ Nullish(JsonParse(file)) THEN ZeroTally
  ELSE LET vulnerabilities ==
             OrEmptyArray(
               OptGet(OptIndex0(OptGet(OptIndex0(Get(JsonParse(file), "results")),
                                       "packages")),
                      "vulnerabilities"))
       IN IF ~Iterable(vulnerabilities) THEN ZeroTally
          ELSE LET items == Iterate(vulnerabilities)
               IN IF \E i \in DOMAIN items :
                       Nullish(items[i]) \/ LowerThrows(osvSeverity(items[i]))
                    THEN ZeroTally
                    ELSE CountBuckets(
                           [i \in DOMAIN items |-> osvBucket(ToLowerCase(osvSeverity(items[i])))],
                           LengthOf(vulnerabilities))

\* the switch of parseTrivyResults
trivyBucket(level) ==
  CASE level = TxtError -> "critical"
    [] level = TxtWarning -> "high"
    [] level = TxtNote -> "medium"
    [] level = TxtInfo -> "info"
    [] OTHER -> "low"

parseTrivyResults(file) ==
  IF ~file.exists THEN ZeroTally
  ELSE IF JsonParseThrows(file) \/ Nullish(JsonParse(file)) THEN ZeroTally
  ELSE LET results ==
             OrEmptyArray(OptGet(OptIndex0(Get(JsonParse(file), "runs")), "results"))
       IN IF ~Iterable(results) THEN ZeroTally
          ELSE LET items == Iterate(results)
               IN IF \E i \in DOMAIN items :
                       Nullish(items[i]) \/ LowerThrows(Get(items[i], "level"))
                    THEN ZeroTally
                    ELSE CountBuckets(
                           [i \in DOMAIN items |->
                              trivyBucket(ToLowerCase(Get(items[i], "level")))],
                           LengthOf(results))

\* ScanParser.aggregateFindings: the four tallies added field by field
ScanParser_aggregateFindings(dir) ==
  LET semgrep == parseSemgrepResults(dir["semgrep.json"])
      gitleaks == parseGitleaksResults(dir["gitleaks.json"])
      trivy == parseTrivyResults(dir["trivy.sarif"])
      osv == parseOsvResults(dir["osv.json"])
  IN [f \in DOMAIN ZeroTally |-> semgrep[f] + gitleaks[f] + trivy[f] + osv[f]]

\* the files a ScanParser reads
ArtifactNames == {"semgrep.json", "gitleaks.json", "osv.json", "trivy.sarif"}

\* no ScanParser is in use: an artifacts directory without scanner output
NoParse ==
  /\ artifacts = [name \in ArtifactNames |-> NoFile]
  /\ tally = undefinedObject

\* no comprehensive command runs: the report generator is used directly
\* no tool installation is under way
NoInstall == installer = [missing |-> {}, attempts |-> {}, prompts |-> 0]

\* no AI usage is tracked: no usage file, no AiService, no AI call
NoUsage ==
  /\ usageFile = NoFile
  /\ totalUsage = undefinedObject
  /\ aiCalls = <<>>

NoRun ==
  /\ command = "none"
  /\ pc = "idle"
  /\ opts = [noAi |-> FALSE]
  /\ config = [appUrl |-> FALSE, ai |-> "disabled", aiCriticalToFail |-> "undefined"]
  /\ argv = <<>>
  /\ hasErrors = FALSE
  /\ exitStatus = [state |-> "running"]
  /\ invoked = {}
  /\ processFailed = {}
  /\ uiTestResult = [failed |-> 0]
  /\ summaryJson = NoFile
  /\ reportMd = NoFile

\* ------------------------------------------------------ drawn inputs
Levels == {"P0", "P1", "P2"}

\* descriptions the AI gives a priority item: one plain, one with the letter n
\* inside, one that starts with it
Descriptions == {<<"X", "S", "S">>, <<"I", "n", "j">>, <<"n", "o">>}

\* the objects the AI returns to generateExecutiveSummary
SummaryObjects ==
  {[summary |-> <<"O", "k">>,
    priorities |-> [i \in 1..Len(ls) |-> [level |-> ls[i], description |-> d]],
    recommendations |-> <<<<"F", "i", "x">>>>] :
     ls \in SeqsUpTo(Levels, MaxPrio), d \in Descriptions}

\* documents at ai/summary.md that are not what generateExecutiveSummary
\* writes: plain text without a section, and a priorities section with one
\* line and no recommendations section
MalformedSummaryFiles ==
  {File(<<"O", "k">>),
   File(<<"O", "k">> \o TxtPrioritiesHead
          \o renderPriority([level |-> "P0", description |-> <<"X", "S", "S">>]))}

\* what an earlier or the current report command, or an editor, can have left
\* at ai/summary.md
SummaryFiles ==
  {NoFile} \cup {File(saveArtifact(renderSummary(o))) : o \in SummaryObjects}
    \cup MalformedSummaryFiles

\* section 8, scenario A: all five tools succeed
ScenarioA ==
  <<Outcome("semgrep", "SUCCESS", 0), Outcome("gitleaks", "SUCCESS", 0), Outcome("trivy", "SUCCESS", 0),
    Outcome("osv-scanner", "SUCCESS", 0), Outcome("zap", "SUCCESS", 0)>>

\* section 8, scenario B: two tools of five succeed
ScenarioB ==
  <<Outcome("semgrep", "FAILED", 0), Outcome("gitleaks", "SUCCESS", 0), Outcome("trivy", "SUCCESS", 0),
    Outcome("osv-scanner", "SKIPPED", 0), Outcome("zap", "SKIPPED", 0)>>

\* section 8, scenario C: a ledger whose base score is 85
ScenarioC ==
  <<Outcome("semgrep", "SUCCESS", 0), Outcome("gitleaks", "SUCCESS", 0), Outcome("trivy", "SUCCESS", 0),
    Outcome("zap", "SUCCESS", 0), Outcome("osv-scanner", "FAILED", 0), Outcome("eslint", "FAILED", 0)>>

ScenarioLedgers == {ScenarioA, ScenarioB, ScenarioC}

\* the outcomes of the short ledgers a caller holds: one scanner with full
\* credit and the two that share a category
ReportOutcomes == {o \in Outcomes : o.tool \in {"semgrep", "trivy", "osv-scanner"}}

\* ------------------------------------------- the report generator in use
\* a ReportGenerator has been constructed; a caller holds a ledger and a flag
Init ==
  /\ scanResults \in SeqsUpTo(ReportOutcomes, MaxReportLedger) \cup ScenarioLedgers
  /\ summaryFile \in SummaryFiles
  /\ includeAi \in BOOLEAN
  /\ now = 0
  /\ reports = <<>>
  /\ scores = undefinedObject
  /\ recommendations = undefinedObject
  /\ findings = undefinedObject
  /\ NoParse
  /\ NoInstall
  /\ NoUsage
  /\ NoRun

\* reportGenerator.generateReport(scanResults, cwd, includeAi), some minutes later
GenerateReport ==
  /\ Len(reports) < 2
  /\ \E dt \in Ticks :
       /\ now' = now + dt
       /\ reports' = Append(reports,
                            generateReport(scanResults, includeAi, undefinedObject,
                                           summaryFile, 0, now'))
  /\ UNCHANGED <<scanResults, summaryFile, includeAi, scoreVars, parserVars, installVars, usageVars, runVars>>

Next == GenerateReport

Spec == Init /\ [][Next]_vars

\* outcomes that carry a raw findings count and no tally
RawOutcomes ==
  {ScanResult(t, "SUCCESS", 2, undefined, undefinedObject) : t \in {"zap", "eslint"}}

\* ------------------------------------------- the scoring engine in use
InitScore ==
  /\ scanResults \in SeqsUpTo(Outcomes \cup RawOutcomes, MaxLedger) \cup ScenarioLedgers
  /\ summaryFile = NoFile
  /\ includeAi = FALSE
  /\ now = 0
  /\ reports = <<>>
  /\ scores = undefinedObject
  /\ recommendations = undefinedObject
  /\ findings = undefinedObject
  /\ NoParse
  /\ NoInstall
  /\ NoUsage
  /\ NoRun

CalculateScores ==
  /\ scores = undefinedObject
  /\ scores' = calculateScores(scanResults)
  /\ UNCHANGED <<reportVars, recommendations, findings, runVars, parserVars, installVars, usageVars>>

GenerateRecommendations ==
  /\ recommendations = undefinedObject
  /\ recommendations' = generateRecommendations(scanResults)
  /\ UNCHANGED <<reportVars, scores, findings, runVars, parserVars, installVars, usageVars>>

AggregateFindings ==
  /\ findings = undefinedObject
  /\ findings' = aggregateFindings(scanResults)
  /\ UNCHANGED <<reportVars, scores, recommendations, runVars, parserVars, installVars, usageVars>>

NextScore == CalculateScores \/ GenerateRecommendations \/ AggregateFindings

SpecScore == InitScore /\ [][NextScore]_vars

\* ====================================================== scanner adapters
\* what a scanner's process can do: exit 0, exit non-zero, die by a signal,
\* fail to start with ENOENT or with another error event, or make spawn throw
AdapterOutcomes == {"exit0", "exit1", "signal", "ENOENT", "EACCES", "throw"}

\* the process exited non-zero or could not be started
ProcessFailed(outcome) == outcome # "exit0"

\* of the processes a step ran, those that failed
failedOf(ran) == {t \in DOMAIN ran : ProcessFailed(ran[t])}

\* the promise an adapter returns: resolved with a code, or rejected
Resolved(code) == [rejected |-> FALSE, code |-> code]
Rejected == [rejected |-> TRUE]

runSemgrep(outcome) ==
  CASE outcome = "throw" -> Rejected
    [] outcome = "ENOENT" -> Resolved(0)
    [] outcome = "EACCES" -> Resolved(1)
    [] outcome = "signal" -> Resolved(1)
    [] outcome = "exit1" -> Resolved(1)
    [] outcome = "exit0" -> Resolved(0)

runOSV(outcome) ==
  CASE outcome = "throw" -> Rejected
    [] outcome = "ENOENT" -> Resolved(0)
    [] outcome = "EACCES" -> Resolved(1)
    [] outcome = "signal" -> Resolved(1)
    [] outcome = "exit1" -> Resolved(1)
    [] outcome = "exit0" -> Resolved(0)

runTrivyRepo(outcome) ==
  CASE outcome = "throw" -> Rejected
    [] outcome = "ENOENT" -> Resolved(0)
    [] outcome = "EACCES" -> Resolved(1)
    [] outcome = "signal" -> Resolved(1)
    [] outcome = "exit1" -> Resolved(1)
    [] outcome = "exit0" -> Resolved(0)

runGitleaks(outcome) ==
  CASE outcome = "throw" -> Rejected
    [] outcome = "ENOENT" -> Resolved(0)
    [] outcome = "EACCES" -> Resolved(1)
    [] outcome = "signal" -> Resolved(1)
    [] outcome = "exit1" -> Resolved(1)
    [] outcome = "exit0" -> Resolved(0)

runZapBaseline(outcome) ==
  CASE outcome = "throw" -> Rejected
    [] outcome = "ENOENT" -> Resolved(0)
    [] outcome = "EACCES" -> Resolved(1)
    [] outcome = "signal" -> Resolved(1)
    [] outcome = "exit1" -> Resolved(1)
    [] outcome = "exit0" -> Resolved(0)

\* ========================================================= scan commands
\* how a command called with await ends: it returns, it throws, or it ends
\* the process
Return == [kind |-> "return"]
Throw == [kind |-> "throw"]
Exit(code) == [kind |-> "exit", code |-> code]

\* process.argv.includes(word)
ArgvIncludes(word) == \E i \in DOMAIN argv : argv[i] = word

\* initializeAi(...) returns a service: not --no-ai, enabled in vibe.yaml, and
\* an API key in the environment
initializeAi == ~opts.noAi /\ config.ai = "enabled"

\* AiService.shouldFailOnCritical: thresholds?.aiCriticalToFail ?? true
shouldFailOnCritical == config.aiCriticalToFail # "false"

\* scanCode: semgrep, then the AI review, which finds a critical issue or not
scanCode(outcome, criticalReview) ==
  LET code == runSemgrep(outcome)
  IN IF code.rejected THEN Throw
     ELSE IF initializeAi /\ criticalReview /\ shouldFailOnCritical THEN Exit(6)
     ELSE IF code.code # 0 THEN Exit(6)
     ELSE Return

\* scanDeps: osv-scanner, then trivy
scanDeps(osvOutcome, trivyOutcome) ==
  LET c1 == runOSV(osvOutcome)
      c2 == runTrivyRepo(trivyOutcome)
  IN IF c1.rejected \/ c2.rejected THEN Throw
     ELSE IF (c1.code # 0 \/ c2.code # 0) /\ ArgvIncludes("deps") THEN Exit(7)
     ELSE Return

\* the processes scanDeps gets to spawn: trivy only once osv-scanner has resolved
depsSpawned(osvOutcome) ==
  IF runOSV(osvOutcome).rejected THEN {"osv-scanner"} ELSE {"osv-scanner", "trivy"}

scanSecrets(outcome) ==
  LET code == runGitleaks(outcome)
  IN IF code.rejected THEN Throw
     ELSE IF code.code # 0 /\ ArgvIncludes("secrets") THEN Exit(8)
     ELSE Return

scanZap(outcome) ==
  LET code == runZapBaseline(outcome)
  IN IF code.rejected THEN Throw
     ELSE IF code.code # 0 /\ ArgvIncludes("zap") THEN Exit(9)
     ELSE Return

\* a normalizer of ScanParser on an artifacts directory without the scanner's
\* output file
noArtifactTally == ZeroTally

\* the entries the commands push
successResult(tool) == ScanResult(tool, "SUCCESS", noArtifactTally.total, undefined, noArtifactTally)
failedResult(tool) == ScanResult(tool, "FAILED", 0, "Error", undefinedObject)

\* process.exit(code), or going on at the next step
ProcessExit(code) ==
  /\ exitStatus' = [state |-> "exit", code |-> code]
  /\ UNCHANGED <<pc, scanResults, hasErrors>>

Running == exitStatus.state = "running"

\* ======================================================= drawn run inputs
\* the value of -c on the command line
ConfigPaths == {"./specs/vibe.yaml", "deps"}

\* the most failed UI tests a run sees
MaxUiFailed == 1

\* what an earlier run can have left at ai/summary.md
StaleSummaryFiles ==
  {NoFile,
   File(saveArtifact(renderSummary(
     [summary |-> <<"O", "k">>,
      priorities |-> <<[level |-> "P0", description |-> <<"X", "S", "S">>]>>,
      recommendations |-> <<<<"F", "i", "x">>>>])))}

\* what the AI returns to the report command of this run
RunSummaryObjects ==
  {[summary |-> <<"O", "k">>, priorities |-> ps, recommendations |-> <<<<"F", "i", "x">>>>] :
     ps \in {<<>>, <<[level |-> "P1", description |-> <<"X", "S", "S">>]>>}}

\* the command has read and validated vibe.yaml and created its ReportGenerator,
\* its ScanParser and an empty scanResults
InitRun ==
  /\ command \in {"scanAll", "comprehensiveVibe"}
  /\ pc = "code"
  /\ opts \in [noAi : BOOLEAN]
  /\ config \in [appUrl : BOOLEAN, ai : {"enabled", "disabled", "nokey"},
                 aiCriticalToFail : {"true", "false", "undefined"}]
  /\ \E path \in ConfigPaths :
       argv = (IF command = "scanAll" THEN <<"scan">> ELSE <<>>) \o <<"-c", path>>
  /\ hasErrors = FALSE
  /\ exitStatus = [state |-> "running"]
  /\ invoked = {}
  /\ processFailed = {}
  /\ uiTestResult = [failed |-> 0]
  /\ summaryJson = NoFile
  /\ reportMd = NoFile
  /\ scanResults = <<>>
  /\ summaryFile \in StaleSummaryFiles
  /\ includeAi = FALSE
  /\ now = 0
  /\ reports = <<>>
  /\ scores = undefinedObject
  /\ recommendations = undefinedObject
  /\ findings = undefinedObject
  /\ NoParse
  /\ NoInstall
  /\ NoUsage

restOfRun == <<opts, config, argv, command, uiTestResult, summaryJson, reportMd,
               summaryFile, includeAi, now, reports, scoreVars, parserVars, installVars, usageVars>>

\* the order in which a run spawns its scanners: scanCode first, then scanDeps
\* with osv-scanner before trivy, then scanSecrets, then scanZap
ExecutionOrder == <<"semgrep", "osv-scanner", "trivy", "gitleaks", "zap">>

\* ================================================================ scanAll
\* "[1/4] Static Code Analysis"
ScanAllCode ==
  /\ command = "scanAll" /\ pc = "code" /\ Running
  /\ \E outcome \in AdapterOutcomes, criticalReview \in BOOLEAN :
       LET res == scanCode(outcome, criticalReview)
       IN /\ invoked' = invoked \cup {"semgrep"}
          /\ processFailed' = processFailed \cup failedOf([t \in {"semgrep"} |-> outcome])
          /\ CASE res.kind = "exit" -> ProcessExit(res.code)
               [] res.kind = "return" ->
                    /\ scanResults' = Append(scanResults, successResult("semgrep"))
                    /\ pc' = "deps"
                    /\ UNCHANGED <<hasErrors, exitStatus>>
               [] res.kind = "throw" ->
                    /\ scanResults' = Append(scanResults, failedResult("semgrep"))
                    /\ hasErrors' = TRUE
                    /\ pc' = "deps"
                    /\ UNCHANGED exitStatus
  /\ UNCHANGED restOfRun

\* "[2/4] Dependency Scan"
ScanAllDeps ==
  /\ command = "scanAll" /\ pc = "deps" /\ Running
  /\ \E osvOutcome \in AdapterOutcomes, trivyOutcome \in AdapterOutcomes :
       LET res == scanDeps(osvOutcome, trivyOutcome)
           spawned == depsSpawned(osvOutcome)
       IN /\ invoked' = invoked \cup spawned
          /\ processFailed' = processFailed \cup
               failedOf([t \in spawned |-> IF t = "trivy" THEN trivyOutcome ELSE osvOutcome])
          /\ CASE res.kind = "exit" -> ProcessExit(res.code)
               [] res.kind = "return" ->
                    /\ scanResults' = scanResults \o <<successResult("trivy"),
                                                       successResult("osv-scanner")>>
                    /\ pc' = "secrets"
                    /\ UNCHANGED <<hasErrors, exitStatus>>
               [] res.kind = "throw" ->
                    /\ scanResults' = Append(scanResults, failedResult("trivy"))
                    /\ hasErrors' = TRUE
                    /\ pc' = "secrets"
                    /\ UNCHANGED exitStatus
  /\ UNCHANGED restOfRun

\* "[3/4] Secret Scan"
ScanAllSecrets ==
  /\ command = "scanAll" /\ pc = "secrets" /\ Running
  /\ \E outcome \in AdapterOutcomes :
       LET res == scanSecrets(outcome)
       IN /\ invoked' = invoked \cup {"gitleaks"}
          /\ processFailed' = processFailed \cup failedOf([t \in {"gitleaks"} |-> outcome])
          /\ CASE res.kind = "exit" -> ProcessExit(res.code)
               [] res.kind = "return" ->
                    /\ scanResults' = Append(scanResults, successResult("gitleaks"))
                    /\ pc' = "zap"
                    /\ UNCHANGED <<hasErrors, exitStatus>>
               [] res.kind = "throw" ->
                    /\ scanResults' = Append(scanResults, failedResult("gitleaks"))
                    /\ hasErrors' = TRUE
                    /\ pc' = "zap"
                    /\ UNCHANGED exitStatus
  /\ UNCHANGED restOfRun

\* "[4/4] Web Security Scan", with an app URL configured
ScanAllZap ==
  /\ command = "scanAll" /\ pc = "zap" /\ Running
  /\ config.appUrl
  /\ \E outcome \in AdapterOutcomes :
       LET res == scanZap(outcome)
       IN /\ invoked' = invoked \cup {"zap"}
          /\ processFailed' = processFailed \cup failedOf([t \in {"zap"} |-> outcome])
          /\ CASE res.kind = "exit" -> ProcessExit(res.code)
               [] res.kind = "return" ->
                    /\ scanResults' = Append(scanResults,
                                             ScanResult("zap", "SUCCESS", 0, undefined, undefinedObject))
                    /\ pc' = "report"
                    /\ UNCHANGED <<hasErrors, exitStatus>>
               [] res.kind = "throw" ->
                    /\ scanResults' = Append(scanResults, failedResult("zap"))
                    /\ hasErrors' = TRUE
                    /\ pc' = "report"
                    /\ UNCHANGED exitStatus
  /\ UNCHANGED restOfRun

\* the web scan without an app URL: a SKIPPED entry
ScanAllZapSkipped ==
  /\ command = "scanAll" /\ pc = "zap" /\ Running
  /\ ~config.appUrl
  /\ scanResults' = Append(scanResults,
                           ScanResult("zap", "SKIPPED", 0, "No app URL configured", undefinedObject))
  /\ pc' = "report"
  /\ UNCHANGED <<hasErrors, exitStatus, invoked, processFailed>>
  /\ UNCHANGED restOfRun

\* ---------------------------------------------------- the report command
\* the AI call of generateExecutiveSummary fails (network, schema)
AiFailure == [failed |-> TRUE]

\* the report command: merge the SARIF files, then, with an AI service, ask for
\* the executive summary and save it; generateExecutiveSummary catches a failed
\* AI call and writes nothing
report(mergeOutcome, aiResult) ==
  IF mergeOutcome = "throw" THEN [result |-> Throw, summaryFile |-> summaryFile]
  ELSE [result |-> Return,
        summaryFile |-> IF initializeAi /\ aiResult # AiFailure
                          THEN File(saveArtifact(renderSummary(aiResult)))
                          ELSE summaryFile]

\* saveReports: the JSON summary is written first, the markdown report is
\* rendered and written second; either write can fail
SaveOutcomes == {"ok", "failJson", "failMarkdown"}

saveReports(report_, outcome) ==
  [result |-> IF outcome = "ok" THEN Return ELSE Throw,
   summaryJson |-> IF outcome = "failJson" THEN summaryJson ELSE File(report_),
   reportMd |-> IF outcome = "ok" THEN File(report_) ELSE reportMd]

\* "Generating comprehensive security report": the AI analysis of the report command
ScanAllReport ==
  /\ command = "scanAll" /\ pc = "report" /\ Running
  /\ IF opts.noAi
       THEN /\ pc' = "generate"
            /\ UNCHANGED <<summaryFile, hasErrors>>
       ELSE \E mergeOutcome \in {"ok", "throw"}, aiResult \in RunSummaryObjects \cup {AiFailure} :
              LET r == report(mergeOutcome, aiResult)
              IN /\ summaryFile' = r.summaryFile
                 /\ IF r.result = Throw
                      THEN hasErrors' = TRUE /\ pc' = "finish"
                      ELSE pc' = "generate" /\ UNCHANGED hasErrors
  /\ UNCHANGED <<scanResults, includeAi, now, reports, scoreVars, parserVars, installVars, usageVars, command, opts, config, argv,
                 exitStatus, invoked, processFailed, uiTestResult, summaryJson, reportMd>>

\* reportGenerator.generateReport(scanResults, process.cwd(), !opts.noAi)
ScanAllGenerate ==
  /\ command = "scanAll" /\ pc = "generate" /\ Running
  /\ \E dt \in Ticks :
       /\ now' = now + dt
       /\ includeAi' = ~opts.noAi
       /\ reports' = Append(reports,
                            generateReport(scanResults, ~opts.noAi, undefinedObject,
                                           summaryFile, 0, now'))
  /\ pc' = "save"
  /\ UNCHANGED <<scanResults, summaryFile, scoreVars, parserVars, installVars, usageVars, command, opts, config, argv, hasErrors,
                 exitStatus, invoked, processFailed, uiTestResult, summaryJson, reportMd>>

\* await reportGenerator.saveReports(securityReport), inside the try
ScanAllSave ==
  /\ command = "scanAll" /\ pc = "save" /\ Running
  /\ \E outcome \in SaveOutcomes :
       LET r == saveReports(reports[Len(reports)], outcome)
       IN /\ summaryJson' = r.summaryJson
          /\ reportMd' = r.reportMd
          /\ hasErrors' = (hasErrors \/ r.result = Throw)
  /\ pc' = "finish"
  /\ UNCHANGED <<reportVars, scoreVars, parserVars, installVars, usageVars, command, opts, config, argv, exitStatus, invoked,
                 processFailed, uiTestResult>>

\* the end of scanAll: process.exit(1) or return 0
ScanAllFinish ==
  /\ command = "scanAll" /\ pc = "finish" /\ Running
  /\ exitStatus' = IF hasErrors /\ config.aiCriticalToFail = "true"
                     THEN [state |-> "exit", code |-> 1]
                     ELSE [state |-> "returned", code |-> 0]
  /\ pc' = "done"
  /\ UNCHANGED <<reportVars, scoreVars, parserVars, installVars, usageVars, command, opts, config, argv, hasErrors, invoked,
                 processFailed, uiTestResult, summaryJson, reportMd>>

\* ====================================================== comprehensiveVibe
\* "Static Code Analysis (Semgrep)"
VibeCode ==
  /\ command = "comprehensiveVibe" /\ pc = "code" /\ Running
  /\ \E outcome \in AdapterOutcomes, criticalReview \in BOOLEAN :
       LET res == scanCode(outcome, criticalReview)
       IN /\ invoked' = invoked \cup {"semgrep"}
          /\ processFailed' = processFailed \cup failedOf([t \in {"semgrep"} |-> outcome])
          /\ CASE res.kind = "exit" -> ProcessExit(res.code)
               [] res.kind = "return" ->
                    /\ scanResults' = Append(scanResults, successResult("semgrep"))
                    /\ pc' = "deps"
                    /\ UNCHANGED <<hasErrors, exitStatus>>
               [] res.kind = "throw" ->
                    /\ hasErrors' = TRUE
                    /\ pc' = "deps"
                    /\ UNCHANGED <<scanResults, exitStatus>>
  /\ UNCHANGED restOfRun

\* "Dependency Vulnerability Scan (Trivy & OSV-Scanner)"
VibeDeps ==
  /\ command = "comprehensiveVibe" /\ pc = "deps" /\ Running
  /\ \E osvOutcome \in AdapterOutcomes, trivyOutcome \in AdapterOutcomes :
       LET res == scanDeps(osvOutcome, trivyOutcome)
           spawned == depsSpawned(osvOutcome)
       IN /\ invoked' = invoked \cup spawned
          /\ processFailed' = processFailed \cup
               failedOf([t \in spawned |-> IF t = "trivy" THEN trivyOutcome ELSE osvOutcome])
          /\ CASE res.kind = "exit" -> ProcessExit(res.code)
               [] res.kind = "return" ->
                    /\ scanResults' = scanResults \o <<successResult("trivy"),
                                                       successResult("osv-scanner")>>
                    /\ pc' = "secrets"
                    /\ UNCHANGED <<hasErrors, exitStatus>>
               [] res.kind = "throw" ->
                    /\ hasErrors' = TRUE
                    /\ pc' = "secrets"
                    /\ UNCHANGED <<scanResults, exitStatus>>
  /\ UNCHANGED restOfRun

\* "Secret Detection (Gitleaks)"
VibeSecrets ==
  /\ command = "comprehensiveVibe" /\ pc = "secrets" /\ Running
  /\ \E outcome \in AdapterOutcomes :
       LET res == scanSecrets(outcome)
       IN /\ invoked' = invoked \cup {"gitleaks"}
          /\ processFailed' = processFailed \cup failedOf([t \in {"gitleaks"} |-> outcome])
          /\ CASE res.kind = "exit" -> ProcessExit(res.code)
               [] res.kind = "return" ->
                    /\ scanResults' = Append(scanResults, successResult("gitleaks"))
                    /\ pc' = "zap"
                    /\ UNCHANGED <<hasErrors, exitStatus>>
               [] res.kind = "throw" ->
                    /\ hasErrors' = TRUE
                    /\ pc' = "zap"
                    /\ UNCHANGED <<scanResults, exitStatus>>
  /\ UNCHANGED restOfRun

\* "Web Security Scan (OWASP ZAP)", with an app URL configured
VibeZap ==
  /\ command = "comprehensiveVibe" /\ pc = "zap" /\ Running
  /\ config.appUrl
  /\ \E outcome \in AdapterOutcomes :
       LET res == scanZap(outcome)
       IN /\ invoked' = invoked \cup {"zap"}
          /\ processFailed' = processFailed \cup failedOf([t \in {"zap"} |-> outcome])
          /\ CASE res.kind = "exit" -> ProcessExit(res.code)
               [] res.kind = "return" ->
                    /\ scanResults' = Append(scanResults,
                                             ScanResult("zap", "SUCCESS", 0, undefined, EmptyObject))
                    /\ pc' = "ui"
                    /\ UNCHANGED <<hasErrors, exitStatus>>
               [] res.kind = "throw" ->
                    /\ pc' = "ui"
                    /\ UNCHANGED <<scanResults, hasErrors, exitStatus>>
  /\ UNCHANGED restOfRun

\* "Web security scan skipped (no app.url configured)": a log line only
VibeZapSkipped ==
  /\ command = "comprehensiveVibe" /\ pc = "zap" /\ Running
  /\ ~config.appUrl
  /\ pc' = "ui"
  /\ UNCHANGED <<scanResults, hasErrors, exitStatus, invoked, processFailed>>
  /\ UNCHANGED restOfRun

\* "[3/4] UI Testing": uiTest throws, or the results file gives the failed count
VibeUiTest ==
  /\ command = "comprehensiveVibe" /\ pc = "ui" /\ Running
  /\ \/ /\ hasErrors' = TRUE
        /\ UNCHANGED uiTestResult
     \/ /\ \E failed \in 0..MaxUiFailed : uiTestResult' = [failed |-> failed]
        /\ UNCHANGED hasErrors
  /\ pc' = "report"
  /\ UNCHANGED <<reportVars, scoreVars, parserVars, installVars, usageVars, command, opts, config, argv, exitStatus, invoked,
                 processFailed, summaryJson, reportMd>>

\* "[4/4] AI Analysis": the report command in its own try
VibeReport ==
  /\ command = "comprehensiveVibe" /\ pc = "report" /\ Running
  /\ IF opts.noAi
       THEN UNCHANGED summaryFile
       ELSE \E mergeOutcome \in {"ok", "throw"}, aiResult \in RunSummaryObjects \cup {AiFailure} :
              summaryFile' = report(mergeOutcome, aiResult).summaryFile
  /\ pc' = "generate"
  /\ UNCHANGED <<scanResults, includeAi, now, reports, scoreVars, parserVars, installVars, usageVars, command, opts, config, argv,
                 hasErrors, exitStatus, invoked, processFailed, uiTestResult, summaryJson, reportMd>>

\* reportGenerator.generateReport(scanResults, process.cwd(), !opts.noAi, aiUsage)
VibeGenerate ==
  /\ command = "comprehensiveVibe" /\ pc = "generate" /\ Running
  /\ \E dt \in Ticks :
       /\ now' = now + dt
       /\ includeAi' = ~opts.noAi
       /\ reports' = Append(reports,
                            generateReport(scanResults, ~opts.noAi, undefinedObject,
                                           summaryFile, 0, now'))
  /\ pc' = "save"
  /\ UNCHANGED <<scanResults, summaryFile, scoreVars, parserVars, installVars, usageVars, command, opts, config, argv, hasErrors,
                 exitStatus, invoked, processFailed, uiTestResult, summaryJson, reportMd>>

\* the report with the UI test results added
enhancedReport(securityReport) ==
  [uiTesting |-> [status |-> IF uiTestResult.failed = 0 THEN "PASSED" ELSE "FAILED",
                  failed |-> uiTestResult.failed]]
    @@ securityReport

\* await reportGenerator.saveReports(enhancedReport), outside any try: a failed
\* write rejects the command's promise
VibeSave ==
  /\ command = "comprehensiveVibe" /\ pc = "save" /\ Running
  /\ \E outcome \in SaveOutcomes :
       LET r == saveReports(enhancedReport(reports[Len(reports)]), outcome)
       IN /\ summaryJson' = r.summaryJson
          /\ reportMd' = r.reportMd
          /\ IF r.result = Throw
               THEN exitStatus' = [state |-> "rejected"] /\ UNCHANGED pc
               ELSE pc' = "finish" /\ UNCHANGED exitStatus
  /\ UNCHANGED <<reportVars, scoreVars, parserVars, installVars, usageVars, command, opts, config, argv, hasErrors, invoked,
                 processFailed, uiTestResult>>

\* comprehensiveVibe's verdict
overallSuccess ==
  /\ ~hasErrors
  /\ reports[Len(reports)].overallScore.total >= 70
  /\ uiTestResult.failed = 0

\* the end of comprehensiveVibe: process.exit(1) or return
VibeFinish ==
  /\ command = "comprehensiveVibe" /\ pc = "finish" /\ Running
  /\ exitStatus' = IF ~overallSuccess
                     THEN [state |-> "exit", code |-> 1]
                     ELSE [state |-> "returned", code |-> 0]
  /\ pc' = "done"
  /\ UNCHANGED <<reportVars, scoreVars, parserVars, installVars, usageVars, command, opts, config, argv, hasErrors, invoked,
                 processFailed, uiTestResult, summaryJson, reportMd>>

NextRun ==
  \/ ScanAllCode \/ ScanAllDeps \/ ScanAllSecrets \/ ScanAllZap \/ ScanAllZapSkipped
  \/ ScanAllReport \/ ScanAllGenerate \/ ScanAllSave \/ ScanAllFinish
  \/ VibeCode \/ VibeDeps \/ VibeSecrets \/ VibeZap \/ VibeZapSkipped \/ VibeUiTest
  \/ VibeReport \/ VibeGenerate \/ VibeSave \/ VibeFinish

SpecRun == InitRun /\ [][NextRun]_vars

\* ================================================== the ScanParser in use
\* the most entries of a scanner's list of results
MaxEntries == 2

\* a file that is not JSON, and a file that is
InvalidFile == [exists |-> TRUE, valid |-> FALSE]
JsonFile(data) == [exists |-> TRUE, valid |-> TRUE, data |-> data]

\* severities as scanners write them: upper case, lower case, and one no
\* normalizer knows
SeverityTexts ==
  {JStr(<<"E", "R", "R", "O", "R">>), JStr(<<"H", "I", "G", "H">>),
   TxtWarning, TxtNote, TxtLow}

\* an object without any field a normalizer reads
PlainObject == JObj([id |-> JNum(1)])

\* one entry of a scanner's list, with the severity where the normalizer of
\* the file looks for it
SeverityEntry(name, text) ==
  CASE name = "semgrep.json" -> JObj([extra |-> JObj([severity |-> text])])
    [] name = "osv.json" -> JObj([severity |-> JArr(<<JObj([severity |-> text])>>)])
    [] name = "trivy.sarif" -> JObj([level |-> text])
    [] name = "gitleaks.json" -> JObj([RuleID |-> text])

\* the entries of a list: well-formed ones, and a null, a number, an object
\* without severity and a severity that is a number
Entries(name) ==
  {SeverityEntry(name, text) : text \in SeverityTexts}
    \cup {JNull, JNum(1), PlainObject, SeverityEntry(name, JNum(3))}

\* the document of a scanner with v where its list of results belongs
Wrap(name, v) ==
  CASE name = "semgrep.json" -> JObj([results |-> v])
    [] name = "gitleaks.json" -> v
    [] name = "osv.json" ->
         JObj([results |-> JArr(<<JObj([packages |-> JArr(<<JObj([vulnerabilities |-> v])>>)])>>)])
    [] name = "trivy.sarif" -> JObj([runs |-> JArr(<<JObj([results |-> v])>>)])

\* what can stand where the list belongs: lists, and values that are no list
ListValues(name) ==
  {JArr(es) : es \in SeqsUpTo(Entries(name), MaxEntries)}
    \cup {JStr(<<"a", "b">>), JStr(<<"U+1F600">>), JNum(5), PlainObject, JNull}

\* section 8, scenario D: three raw findings of the secret scanner
ScenarioD == JsonFile(JArr(<<PlainObject, PlainObject, PlainObject>>))

ArtifactFiles(name) ==
  {NoFile, InvalidFile, JsonFile(JNull), JsonFile(JNum(5)), JsonFile(PlainObject)}
    \cup {JsonFile(Wrap(name, v)) : v \in ListValues(name)}
    \cup (IF name = "gitleaks.json" THEN {ScenarioD} ELSE {})

\* a scanner's output with one finding
OneFinding(name) ==
  JsonFile(Wrap(name, JArr(<<SeverityEntry(name, JStr(<<"H", "I", "G", "H">>))>>)))

\* a ScanParser has been constructed on an artifacts directory: one file is
\* any of ArtifactFiles, each other file is absent or holds one finding
InitParse ==
  /\ \E name \in ArtifactNames, present \in SUBSET ArtifactNames :
       \E f \in ArtifactFiles(name) :
         artifacts = [n \in ArtifactNames |->
                        IF n = name THEN f
                        ELSE IF n \in present THEN OneFinding(n)
                        ELSE NoFile]
  /\ tally = undefinedObject
  /\ scanResults = <<>>
  /\ summaryFile = NoFile
  /\ includeAi = FALSE
  /\ now = 0
  /\ reports = <<>>
  /\ scores = undefinedObject
  /\ recommendations = undefinedObject
  /\ findings = undefinedObject
  /\ NoRun
  /\ NoInstall
  /\ NoUsage

ParseSemgrepResults ==
  /\ tally' = [by |-> "parseSemgrepResults",
               value |-> parseSemgrepResults(artifacts["semgrep.json"])]
  /\ UNCHANGED <<artifacts, reportVars, scoreVars, runVars, installVars, usageVars>>

ParseGitleaksResults ==
  /\ tally' = [by |-> "parseGitleaksResults",
               value |-> parseGitleaksResults(artifacts["gitleaks.json"])]
  /\ UNCHANGED <<artifacts, reportVars, scoreVars, runVars, installVars, usageVars>>

ParseOsvResults ==
  /\ tally' = [by |-> "parseOsvResults", value |-> parseOsvResults(artifacts["osv.json"])]
  /\ UNCHANGED <<artifacts, reportVars, scoreVars, runVars, installVars, usageVars>>

ParseTrivyResults ==
  /\ tally' = [by |-> "parseTrivyResults",
               value |-> parseTrivyResults(artifacts["trivy.sarif"])]
  /\ UNCHANGED <<artifacts, reportVars, scoreVars, runVars, installVars, usageVars>>

ParserAggregateFindings ==
  /\ tally' = [by |-> "aggregateFindings", value |-> ScanParser_aggregateFindings(artifacts)]
  /\ UNCHANGED <<artifacts, reportVars, scoreVars, runVars, installVars, usageVars>>

NextParse ==
  \/ ParseSemgrepResults \/ ParseGitleaksResults \/ ParseOsvResults \/ ParseTrivyResults
  \/ ParserAggregateFindings

SpecParse == InitParse /\ [][NextParse]_vars

\* ======================================================= tool installation
\* the names of SECURITY_TOOLS and of UI_TOOLS
SecurityTools == {"semgrep", "gitleaks", "osv-scanner", "trivy", "docker"}
UiTools == {"playwright"}

\* toolMap of getRequiredTools
toolMap(scanType) ==
  CASE scanType = "code" -> {"semgrep"}
    [] scanType = "deps" -> {"osv-scanner", "trivy"}
    [] scanType = "secrets" -> {"gitleaks"}
    [] scanType = "zap" -> {"docker"}
    [] scanType = "all" -> {"semgrep", "osv-scanner", "trivy", "gitleaks", "docker"}
    [] OTHER -> {}

getRequiredTools(scanTypes) == UNION {toolMap(scanType) : scanType \in scanTypes}

\* installTool for each of the tools: an install attempt per tool
installTools(st, tools) == [st EXCEPT !.attempts = st.attempts \cup tools]

\* checkAndInstallTools(requiredTools, options), the user answering a prompt
\* with answer: the installer afterwards
checkAndInstallTools(st, requiredTools, options, answer) ==
  LET missingTools == (SecurityTools \cap requiredTools) \cap st.missing
  IN IF missingTools = {} THEN st
     ELSE IF options.skipInstall THEN st
     ELSE IF options.autoInstall THEN installTools(st, missingTools)
     ELSE LET asked == [st EXCEPT !.prompts = st.prompts + 1]
          IN IF answer THEN installTools(asked, missingTools) ELSE asked

\* checkAndInstallUiTools(toolNames, options): one prompt per missing tool
checkAndInstallUiTools(st, toolNames, options, answer) ==
  LET missingTools == (UiTools \cap toolNames) \cap st.missing
  IN IF options.skipInstall THEN st
     ELSE IF missingTools = {} THEN st
     ELSE IF options.autoInstall THEN installTools(st, missingTools)
     ELSE LET asked == [st EXCEPT !.prompts = st.prompts + Cardinality(missingTools)]
          IN IF answer THEN installTools(asked, missingTools) ELSE asked

\* the check a scan command makes before it runs its scanner
scanInstall(st, scanType, options, answer) ==
  IF options.skipInstall THEN st
  ELSE checkAndInstallTools(st, toolMap(scanType), options, answer)

\* the scans of a comprehensive command: the web scan only with an app URL
planScanTypes == {"code", "deps", "secrets"} \cup (IF config.appUrl THEN {"zap"} ELSE {})

\* fullOpts: "skip individual tool checks since we already did comprehensive check"
fullOpts(options) == [options EXCEPT !.skipInstall = TRUE]

\* the commands that take the install flags
StandaloneScans == {"code", "deps", "secrets", "zap"}
InstallCommands == {"comprehensiveVibe", "scanAll", "uiTest", "uiRun"} \cup StandaloneScans

\* a command starts: some tools are missing on the machine
InitInstall ==
  /\ command \in InstallCommands
  /\ pc = "tools"
  /\ opts \in [noAi : {FALSE}, skipInstall : BOOLEAN, autoInstall : BOOLEAN]
  /\ config \in [appUrl : BOOLEAN, ai : {"disabled"}, aiCriticalToFail : {"undefined"}]
  /\ installer \in [missing : SUBSET (SecurityTools \cup UiTools), attempts : {{}},
                    prompts : {0}]
  /\ argv = <<>>
  /\ hasErrors = FALSE
  /\ exitStatus = [state |-> "running"]
  /\ invoked = {}
  /\ processFailed = {}
  /\ uiTestResult = [failed |-> 0]
  /\ summaryJson = NoFile
  /\ reportMd = NoFile
  /\ scanResults = <<>>
  /\ summaryFile = NoFile
  /\ includeAi = FALSE
  /\ now = 0
  /\ reports = <<>>
  /\ scores = undefinedObject
  /\ recommendations = undefinedObject
  /\ findings = undefinedObject
  /\ NoParse
  /\ NoUsage

restOfInstall == <<reportVars, scoreVars, parserVars, usageVars, command, opts, config, argv,
                   hasErrors, exitStatus, invoked, processFailed, uiTestResult, summaryJson,
                   reportMd>>

\* the check of the security tools at the start of a command
InstallSecurityTools ==
  /\ pc = "tools"
  /\ \E answer \in BOOLEAN :
       installer' =
         CASE command = "comprehensiveVibe" ->
                IF ~opts.skipInstall
                  THEN checkAndInstallTools(installer,
                                            {"semgrep", "osv-scanner", "gitleaks", "trivy"},
                                            opts, answer)
                  ELSE installer
           [] command = "scanAll" ->
                IF opts.skipInstall THEN installer
                ELSE checkAndInstallTools(installer, getRequiredTools(planScanTypes),
                                          opts, answer)
           [] command \in StandaloneScans -> scanInstall(installer, command, opts, answer)
           [] OTHER -> installer
  /\ pc' = "uiTools"
  /\ UNCHANGED restOfInstall

\* the check of the UI tools: comprehensiveVibe after its security tools,
\* uiTest and "ui run" at their start
InstallUiTools ==
  /\ pc = "uiTools"
  /\ \E answer \in BOOLEAN :
       installer' =
         CASE command = "comprehensiveVibe" ->
                IF ~opts.skipInstall
                  THEN checkAndInstallUiTools(installer, {"playwright"}, opts, answer)
                  ELSE installer
           [] command \in {"uiTest", "uiRun"} ->
                checkAndInstallUiTools(installer, {"playwright"}, opts, answer)
           [] OTHER -> installer
  /\ pc' = "steps"
  /\ UNCHANGED restOfInstall

RECURSIVE scanInstalls(_, _, _, _)
scanInstalls(st, scanTypes, options, answer) ==
  IF scanTypes = {} THEN st
  ELSE LET scanType == CHOOSE t \in scanTypes : TRUE
       IN scanInstalls(scanInstall(st, scanType, options, answer), scanTypes \ {scanType},
                       options, answer)

\* the steps of a comprehensive command, each called with fullOpts; the UI test
\* of comprehensiveVibe too
RunSteps ==
  /\ pc = "steps"
  /\ \E answer \in BOOLEAN :
       installer' =
         IF command \in {"comprehensiveVibe", "scanAll"}
           THEN LET scanned == scanInstalls(installer, planScanTypes, fullOpts(opts),
                                            answer)
                IN IF command = "comprehensiveVibe"
                     THEN checkAndInstallUiTools(scanned, {"playwright"}, fullOpts(opts),
                                                 answer)
                     ELSE scanned
           ELSE installer
  /\ pc' = "done"
  /\ UNCHANGED restOfInstall

NextInstall == InstallSecurityTools \/ InstallUiTools \/ RunSteps

SpecInstall == InitInstall /\ [][NextInstall]_vars

\* ================================================================ AI usage
\* the totalUsage an AiService starts with
ZeroUsage == [totalTokens |-> 0, promptTokens |-> 0, completionTokens |-> 0, totalCalls |-> 0]

UsageFile(usage) == [exists |-> TRUE, usage |-> usage]

\* the most AI calls of a run
MaxCalls == 2

\* result.usage of an AI call: the three counts, the field names of another
\* provider, or no usage at all
CallUsages ==
  {[totalTokens |-> 3, promptTokens |-> 2, completionTokens |-> 1],
   [input_tokens |-> 2, output_tokens |-> 1],
   undefinedObject}

\* usage.field where a number is added: a missing field adds nothing
UsageField(usage, field) == IF field \in DOMAIN usage THEN usage[field] ELSE 0

\* accumulateUsage(usage) of a usage that is there
accumulateUsage(total, usage) ==
  LET added ==
        [totalCalls |-> total.totalCalls + 1,
         totalTokens |-> total.totalTokens + UsageField(usage, "totalTokens"),
         promptTokens |-> total.promptTokens + UsageField(usage, "promptTokens")
                            + UsageField(usage, "input_tokens"),
         completionTokens |-> total.completionTokens + UsageField(usage, "completionTokens")
                                + UsageField(usage, "output_tokens")]
  IN IF added.totalTokens = 0 /\ (added.promptTokens # 0 \/ added.completionTokens # 0)
       THEN [added EXCEPT !.totalTokens = added.promptTokens + added.completionTokens]
       ELSE added

\* loadTotalUsage: the saved counters over the initial ones
loadTotalUsage(file) == IF file.exists THEN file.usage ELSE ZeroUsage

\* comprehensiveVibe starts: earlier runs have left a usage file, or none
InitUsage ==
  /\ command = "comprehensiveVibe"
  /\ pc = "reset"
  /\ opts = [noAi |-> FALSE]
  /\ config \in [appUrl : BOOLEAN, ai : {"enabled"}, aiCriticalToFail : {"undefined"}]
  /\ usageFile \in {NoFile,
                    UsageFile([totalTokens |-> 9, promptTokens |-> 6, completionTokens |-> 3,
                               totalCalls |-> 3])}
  /\ totalUsage = undefinedObject
  /\ aiCalls = <<>>
  /\ argv = <<>>
  /\ hasErrors = FALSE
  /\ exitStatus = [state |-> "running"]
  /\ invoked = {}
  /\ processFailed = {}
  /\ uiTestResult = [failed |-> 0]
  /\ summaryJson = NoFile
  /\ reportMd = NoFile
  /\ scanResults \in {<<>>, ScenarioA}
  /\ summaryFile = NoFile
  /\ includeAi = TRUE
  /\ now = 0
  /\ reports = <<>>
  /\ scores = undefinedObject
  /\ recommendations = undefinedObject
  /\ findings = undefinedObject
  /\ NoParse
  /\ NoInstall

restOfUsage == <<scanResults, summaryFile, includeAi, now, scoreVars, parserVars, installVars,
                 command, opts, config, argv, hasErrors, exitStatus, invoked, processFailed,
                 uiTestResult, summaryJson, reportMd>>

\* "Clear any existing usage data for a fresh count"
ResetUsage ==
  /\ pc = "reset"
  /\ usageFile' = IF usageFile.exists THEN UsageFile(ZeroUsage) ELSE usageFile
  /\ pc' = "calls"
  /\ UNCHANGED <<totalUsage, aiCalls, reports, restOfUsage>>

\* initializeAi in a step of the run: a new AiService, which loads the file
NewAiService ==
  /\ pc = "calls"
  /\ totalUsage' = loadTotalUsage(usageFile)
  /\ UNCHANGED <<pc, usageFile, aiCalls, reports, restOfUsage>>

\* an AI call of the service in use ends in saveArtifact
AiCall ==
  /\ pc = "calls"
  /\ totalUsage # undefinedObject
  /\ Len(aiCalls) < MaxCalls
  /\ \E usage \in CallUsages :
       /\ aiCalls' = Append(aiCalls, usage)
       /\ IF usage # undefinedObject
            THEN /\ totalUsage' = accumulateUsage(totalUsage, usage)
                 /\ usageFile' = UsageFile(totalUsage')
            ELSE UNCHANGED <<totalUsage, usageFile>>
  /\ UNCHANGED <<pc, reports, restOfUsage>>

\* "Read accumulated AI usage from all operations": a new AiService, its
\* getTotalUsage() handed to generateReport
AttachUsage ==
  /\ pc = "calls"
  /\ totalUsage' = loadTotalUsage(usageFile)
  /\ reports' = Append(reports,
                       generateReport(scanResults, ~opts.noAi, totalUsage', summaryFile, 0, now))
  /\ pc' = "done"
  /\ UNCHANGED <<usageFile, aiCalls, restOfUsage>>

NextUsage == ResetUsage \/ NewAiService \/ AiCall \/ AttachUsage

SpecUsage == InitUsage /\ [][NextUsage]_vars

\* ================================================================ claims
\* the outcomes of a ledger that are the latest of their tool name, in order
RECURSIVE latestOnly(_)
latestOnly(results) ==
  IF results = <<>> THEN <<>>
  ELSE IF \E i \in DOMAIN Tail(results) : Tail(results)[i].tool = Head(results).tool
    THEN latestOnly(Tail(results))
    ELSE <<Head(results)>> \o latestOnly(Tail(results))

\* the number of priority items of one level
CountLevel(priorities, level) ==
  Cardinality({i \in DOMAIN priorities : priorities[i].level = level})

\* a report without its timestamp fields
WithoutTimestamps(r) == [r EXCEPT !.metadata = [vibeVersion |-> r.metadata.vibeVersion]]

\* the entries of a ledger for one tool
EntriesOf(results, tool) == {i \in DOMAIN results : results[i].tool = tool}

\* C1: whatever ledger calculateScores is given (any tool names and statuses,
\* duplicates, the empty ledger), each of the five category scores lies
\* between 0 and its maximum, and the maximums are 25, 20, 25, 20 and 10.
C1_CategoryScoresWithinMax ==
  scores # undefinedObject =>
    /\ DOMAIN scores.categories =
         {"staticAnalysis", "secretDetection", "dependencySecurity", "webSecurity", "toolCoverage"}
    /\ \A k \in DOMAIN scores.categories :
         /\ scores.categories[k].score \in 0..scores.categories[k].max
    /\ scores.categories.staticAnalysis.max = 25
    /\ scores.categories.secretDetection.max = 20
    /\ scores.categories.dependencySecurity.max = 25
    /\ scores.categories.webSecurity.max = 20
    /\ scores.categories.toolCoverage.max = 10

\* calculateScores has run on a ledger whose dependency credits add up to more
\* than the maximum of the category
C1_Witness ==
  /\ scores # undefinedObject
  /\ creditTools(InitialCategories, scanResults).dependencySecurity.score > 25
  /\ scores.categories.dependencySecurity.score = 25

\* C2: the overall score is an integer from 0 to 100, both as calculateScores
\* returns it for the ledger and as every report stores it after the AI penalty.
C2_OverallScoreInRange ==
  /\ calculateScores(scanResults).total \in 0..100
  /\ \A i \in DOMAIN reports : reports[i].overallScore.total \in 0..100

\* a report whose penalty is larger than the base score of its ledger
C2_Witness ==
  \E i \in DOMAIN reports :
    /\ reports[i].aiAnalysis # undefinedObject
    /\ calculateScores(reports[i].tools).total > 0
    /\ 15 * CountLevel(reports[i].aiAnalysis.priorities, "P0")
         + 10 * CountLevel(reports[i].aiAnalysis.priorities, "P1")
         + 5 * CountLevel(reports[i].aiAnalysis.priorities, "P2")
         > calculateScores(reports[i].tools).total
    /\ reports[i].overallScore.total = 0

\* C3: a report made with an AI priority list has as its total the base total
\* of its ledger minus 15 for each P0, 10 for each P1 and 5 for each P2 item,
\* and 0 where that would be negative.
C3_PenaltyFormula ==
  \A i \in DOMAIN reports :
    LET r == reports[i]
        base == calculateScores(r.tools).total
    IN r.aiAnalysis # undefinedObject =>
         r.overallScore.total =
           Max(base - (15 * CountLevel(r.aiAnalysis.priorities, "P0")
                       + 10 * CountLevel(r.aiAnalysis.priorities, "P1")
                       + 5 * CountLevel(r.aiAnalysis.priorities, "P2")), 0)

\* scenario C: base 85, one P0 and one P1 item, final total 60
C3_Witness ==
  \E i \in DOMAIN reports :
    /\ reports[i].tools = ScenarioC
    /\ calculateScores(ScenarioC).total = 85
    /\ reports[i].aiAnalysis # undefinedObject
    /\ Len(reports[i].aiAnalysis.priorities) = 2
    /\ CountLevel(reports[i].aiAnalysis.priorities, "P0") = 1
    /\ CountLevel(reports[i].aiAnalysis.priorities, "P1") = 1
    /\ reports[i].overallScore.total = 60

\* C4: in every report the grade is the grade of the penalized total (90
\* Excellent, 80 Good, 70 Fair, 60 Poor, below that Critical) and the status is
\* PASSED exactly when the penalized total is at least 70.
C4_GradeOfPenalizedTotal ==
  \A i \in DOMAIN reports :
    LET o == reports[i].overallScore
    IN /\ (o.grade = "Excellent") <=> (o.total >= 90)
       /\ (o.grade = "Good") <=> (o.total >= 80 /\ o.total < 90)
       /\ (o.grade = "Fair") <=> (o.total >= 70 /\ o.total < 80)
       /\ (o.grade = "Poor") <=> (o.total >= 60 /\ o.total < 70)
       /\ (o.grade = "Critical") <=> (o.total < 60)
       /\ (o.status = "PASSED") <=> (o.total >= 70)
       /\ o.status \in {"PASSED", "FAILED"}

\* a report that the penalty alone takes across the threshold of 70: its
\* ledger scores 85, its total is 60, graded Poor, status FAILED
C4_Witness ==
  \E i \in DOMAIN reports :
    /\ calculateScores(reports[i].tools).total >= 80
    /\ reports[i].overallScore.total \in 60..69
    /\ reports[i].overallScore.grade = "Poor"
    /\ reports[i].overallScore.status = "FAILED"

C5_NoAiNoPenalty ==
  ~initializeAi =>
    \A i \in DOMAIN reports :
      reports[i].overallScore.total = calculateScores(reports[i].tools).total

\* C7: in a comprehensive run the ledger handed to generateReport has an entry
\* for every scanner the run tried to start and, without an app URL, for the
\* bypassed web scan.
C7_NoToolOmitted ==
  command \in {"scanAll", "comprehensiveVibe"} =>
    \A i \in DOMAIN reports :
      /\ \A t \in invoked : EntriesOf(reports[i].tools, t) # {}
      /\ ~config.appUrl => EntriesOf(reports[i].tools, "zap") # {}

\* C8: a scanner whose process exited non-zero or could not be started has only
\* FAILED entries in the ledger, each with an error message.
C8_FailedProcessRecordedFailed ==
  \A t \in processFailed :
    \A j \in EntriesOf(scanResults, t) :
      /\ scanResults[j].status = "FAILED"
      /\ scanResults[j].error # undefined

\* the scanners of a comprehensive run's plan
PlanTools ==
  {"semgrep", "osv-scanner", "trivy", "gitleaks"} \cup (IF config.appUrl THEN {"zap"} ELSE {})

\* C9: a scanner's failure does not end a comprehensive run early: when the
\* process has ended after a scanner failed, every scanner of the plan has been
\* invoked and the report has been generated.
C9_FailureNeverAborts ==
  (command \in {"scanAll", "comprehensiveVibe"} /\ processFailed # {} /\ ~Running) =>
    /\ PlanTools \subseteq invoked
    /\ reports # <<>>

\* C10: on a ledger with several outcomes of one tool name, category scoring,
\* recommendations and aggregated findings are what they are on the ledger that
\* keeps only the latest outcome of each tool name.
C10_LatestOccurrenceOnly ==
  /\ scores # undefinedObject => scores = calculateScores(latestOnly(scanResults))
  /\ recommendations # undefinedObject =>
       recommendations = generateRecommendations(latestOnly(scanResults))
  /\ findings # undefinedObject => findings = aggregateFindings(latestOnly(scanResults))

\* the SUCCESS outcomes of a ledger among a set of tool names
SuccessesOf(results, tools) ==
  Cardinality({i \in DOMAIN results : results[i].status = "SUCCESS" /\ results[i].tool \in tools})

\* the sum of a sequence of numbers
RECURSIVE SumSeq(_)
SumSeq(xs) == IF xs = <<>> THEN 0 ELSE Head(xs) + SumSeq(Tail(xs))

\* C13: calculateScores credits by the identity of SUCCESS outcomes only:
\* semgrep gives staticAnalysis 25, gitleaks secretDetection 20, each trivy 12
\* and each osv-scanner 13 to dependencySecurity (capped at 25), the web scan
\* (zap, or its docker alias) webSecurity 20; nothing else credits. The ledger
\* of scenario A has every category EXCELLENT and scores 100, Excellent, passing.
C13_CreditByIdentity ==
  scores # undefinedObject =>
    LET c == scores.categories
    IN /\ c.staticAnalysis.score =
            (IF SuccessesOf(scanResults, {"semgrep"}) > 0 THEN 25 ELSE 0)
       /\ c.secretDetection.score =
            (IF SuccessesOf(scanResults, {"gitleaks"}) > 0 THEN 20 ELSE 0)
       /\ c.dependencySecurity.score =
            Min(25, 12 * SuccessesOf(scanResults, {"trivy"})
                    + 13 * SuccessesOf(scanResults, {"osv-scanner"}))
       /\ c.webSecurity.score =
            (IF SuccessesOf(scanResults, {"zap", "docker"}) > 0 THEN 20 ELSE 0)
       /\ scanResults = ScenarioA =>
            /\ \A k \in DOMAIN c : c[k].status = "EXCELLENT"
            /\ scores.total = 100
            /\ getGrade(scores.total) = "Excellent"
            /\ scores.total >= 70

\* scenario A has been scored
C13_Witness ==
  /\ scores # undefinedObject
  /\ scanResults = ScenarioA
  /\ scores.total = 100

\* C14: the toolCoverage score is a step function of the share of SUCCESS
\* outcomes in the ledger: at least 80% gives 10, at least 60% gives 8, at
\* least 40% gives 6, otherwise (and for the empty ledger) 0; the ledger of
\* scenario B scores 20 + 12 + 6 = 38, which fails.
C14_CoverageStepFunction ==
  scores # undefinedObject =>
    LET s == SuccessesOf(scanResults, Tools)
        n == Len(scanResults)
    IN /\ scores.categories.toolCoverage.score =
            (IF n = 0 THEN 0
             ELSE IF 100 * s >= 80 * n THEN 10
             ELSE IF 100 * s >= 60 * n THEN 8
             ELSE IF 100 * s >= 40 * n THEN 6
             ELSE 0)
       /\ scanResults = ScenarioB =>
            /\ scores.categories.secretDetection.score = 20
            /\ scores.categories.dependencySecurity.score = 12
            /\ scores.categories.toolCoverage.score = 6
            /\ scores.total = 38
            /\ scores.total < 70

\* scenario B has been scored: 2 successes of 5 outcomes
C14_Witness ==
  /\ scores # undefinedObject
  /\ scanResults = ScenarioB
  /\ SuccessesOf(scanResults, Tools) = 2
  /\ scores.categories.toolCoverage.score = 6

\* C15: in every result of calculateScores a category's status follows from
\* its final score and max alone: EXCELLENT at the max, GOOD from 80% of it,
\* FAIR from 60%, FAILED below.
C15_StatusFromScore ==
  scores # undefinedObject =>
    \A k \in DOMAIN scores.categories :
      LET c == scores.categories[k]
      IN c.status = (IF c.score >= c.max THEN "EXCELLENT"
                     ELSE IF 10 * c.score >= 8 * c.max THEN "GOOD"
                     ELSE IF 10 * c.score >= 6 * c.max THEN "FAIR"
                     ELSE "FAILED")

\* two trivy successes: attribution leaves the status FAILED of the start, the
\* final score 24 of 25 makes it GOOD
C15_Witness ==
  /\ scores # undefinedObject
  /\ creditTools(InitialCategories, scanResults).dependencySecurity.status = "FAILED"
  /\ scores.categories.dependencySecurity.score = 24
  /\ scores.categories.dependencySecurity.status = "GOOD"

\* C19: ReportGenerator.aggregateFindings sums per severity over all outcomes:
\* an outcome with a tally adds its six counts, an outcome with only a raw
\* count n adds n to total and to medium, an outcome with neither adds nothing.
C19_AggregateSums ==
  findings # undefinedObject =>
    \A f \in DOMAIN ZeroTally :
      findings[f] =
        SumSeq([i \in DOMAIN scanResults |->
                  LET r == scanResults[i]
                  IN IF r.additionalData # undefinedObject
                       THEN (IF f \in DOMAIN r.additionalData THEN r.additionalData[f] ELSE 0)
                     ELSE IF f \in {"total", "medium"} THEN r.findings
                     ELSE 0])

\* a ledger with a tallied outcome and an outcome with a raw count only has
\* been aggregated
C19_Witness ==
  /\ findings # undefinedObject
  /\ \E i, j \in DOMAIN scanResults :
       /\ scanResults[i].additionalData # undefinedObject
       /\ scanResults[j].additionalData = undefinedObject
       /\ scanResults[j].findings > 0
  /\ findings.medium > 0
  /\ findings.high > 0

\* C16: a comprehensive run ends as successful (returns, no non-zero exit) only
\* if no tool execution errored, the report's total is at least 70 and no UI
\* test failed.
C16_SuccessVerdict ==
  (command \in {"scanAll", "comprehensiveVibe"} /\ exitStatus.state = "returned") =>
    /\ ~hasErrors
    /\ reports # <<>>
    /\ reports[Len(reports)].overallScore.total >= 70
    /\ uiTestResult.failed = 0

\* C17: saveReports leaves no final report file of this run without its
\* complete counterpart: security-summary.json and security-report.md are
\* both there or both not.
C17_ReportsSavedTogether ==
  command \in {"scanAll", "comprehensiveVibe"} =>
    ((summaryJson = NoFile) <=> (reportMd = NoFile))

\* C18: a comprehensive run that generated its report and could not write it
\* does not end as a successful run.
C18_PersistenceFailureFatal ==
  (command \in {"scanAll", "comprehensiveVibe"} /\ exitStatus.state = "returned"
     /\ reports # <<>>) =>
    /\ summaryJson # NoFile
    /\ reportMd # NoFile

\* the file a normalizer reads
FileOf(method) ==
  CASE method = "parseSemgrepResults" -> "semgrep.json"
    [] method = "parseGitleaksResults" -> "gitleaks.json"
    [] method = "parseOsvResults" -> "osv.json"
    [] method = "parseTrivyResults" -> "trivy.sarif"

Normalizers ==
  {"parseSemgrepResults", "parseGitleaksResults", "parseOsvResults", "parseTrivyResults"}

\* a JSON file of a scanner that holds no array where its list of results belongs
UnexpectedStructure(name, file) ==
  /\ file.exists
  /\ file.valid
  /\ \A v \in ListValues(name) : file.data = Wrap(name, v) => ~IsArray(v)

\* C11: a normalizer returns the all-zero tally for a missing file, a file
\* that is not JSON, and JSON of an unexpected structure.
C11_ZeroTallyOnBadArtifact ==
  (tally # undefinedObject /\ tally.by \in Normalizers) =>
    LET name == FileOf(tally.by)
        file == artifacts[name]
    IN (~file.exists \/ ~file.valid \/ UnexpectedStructure(name, file)) =>
         tally.value = ZeroTally

\* C12: every tally a normalizer returns, and the aggregate of
\* ScanParser.aggregateFindings, has total = critical + high + medium + low +
\* info and no negative count.
C12_TotalIsSumOfSeverities ==
  tally # undefinedObject =>
    /\ tally.value.total = tally.value.critical + tally.value.high + tally.value.medium
                             + tally.value.low + tally.value.info
    /\ \A f \in DOMAIN tally.value : tally.value[f] >= 0

\* C20: for a findings array of n entries the secret-detection normalizer
\* returns total n, high n and 0 elsewhere, whatever the entries are.
C20_SecretsAllHigh ==
  (tally # undefinedObject /\ tally.by = "parseGitleaksResults"
     /\ artifacts["gitleaks.json"].exists /\ artifacts["gitleaks.json"].valid
     /\ IsArray(artifacts["gitleaks.json"].data)) =>
    LET n == Len(artifacts["gitleaks.json"].data.array)
    IN tally.value = [total |-> n, critical |-> 0, high |-> n, medium |-> 0, low |-> 0,
                      info |-> 0]

\* scenario D has been normalized: 3 entries, total 3, high 3
C20_Witness ==
  /\ tally # undefinedObject
  /\ tally.by = "parseGitleaksResults"
  /\ artifacts["gitleaks.json"] = ScenarioD
  /\ tally.value.total = 3
  /\ tally.value.high = 3

\* the normalizers that classify each finding by its severity label
LabelNormalizers == {"parseSemgrepResults", "parseOsvResults", "parseTrivyResults"}

\* the bucket the table of a normalizer gives an entry: the label is read where
\* the scanner writes it and lower-cased; a label that is missing or is no text
\* takes the default of the table
TableBucket(method, entry) ==
  LET label == CASE method = "parseSemgrepResults" -> semgrepSeverity(entry)
                 [] method = "parseOsvResults" -> osvSeverity(entry)
                 [] method = "parseTrivyResults" -> Get(entry, "level")
      text == IF IsString(label) THEN ToLowerCase(label) ELSE undefinedObject
  IN CASE method = "parseSemgrepResults" -> semgrepBucket(text)
       [] method = "parseOsvResults" -> osvBucket(text)
       [] method = "parseTrivyResults" -> trivyBucket(text)

Occurrences(list, x) == Cardinality({i \in DOMAIN list : list[i] = x})

\* how many outcomes of a ledger have the status and one of the tools
OutcomesOf(results, status, tools) ==
  Cardinality({i \in DOMAIN results :
                 results[i].status = status /\ results[i].tool \in tools})

\* the immediate hint of each tool that has one when it failed
FailedHints ==
  [t \in {"osv-scanner", "semgrep", "gitleaks", "trivy"} |->
     CASE t = "osv-scanner" -> "Update Go to version 1.23+ to enable OSV-Scanner"
       [] t = "semgrep" -> "Install semgrep: brew install semgrep"
       [] t = "gitleaks" -> "Install gitleaks: brew install gitleaks"
       [] t = "trivy" -> "Install trivy: brew install trivy"]

DockerHint == "Start Docker daemon to enable OWASP ZAP web security testing"

\* C22: the immediate list holds the hint of a tool once per FAILED outcome of
\* that tool (osv-scanner, semgrep, gitleaks, trivy), the hint to start Docker
\* once per SKIPPED outcome of zap or docker, and nothing else: a FAILED
\* outcome of any other identity, a SUCCESS outcome and a SKIPPED outcome of
\* another tool add no hint.
C22_ImmediateHints ==
  recommendations # undefinedObject =>
    LET immediate == recommendations.immediate
    IN /\ \A t \in DOMAIN FailedHints :
            Occurrences(immediate, FailedHints[t]) = OutcomesOf(scanResults, "FAILED", {t})
       /\ Occurrences(immediate, DockerHint)
            = OutcomesOf(scanResults, "SKIPPED", {"zap", "docker"})
       /\ Len(immediate)
            = OutcomesOf(scanResults, "FAILED", DOMAIN FailedHints)
                + OutcomesOf(scanResults, "SKIPPED", {"zap", "docker"})

\* the recommendations of scenario B: semgrep failed, osv-scanner and zap were
\* skipped, two tools succeeded; two hints
C22_Witness ==
  /\ scanResults = ScenarioB
  /\ recommendations # undefinedObject
  /\ recommendations.immediate = <<FailedHints["semgrep"], DockerHint>>

RerunItem == "Re-run comprehensive scan after fixing tool issues"

\* C23: the short-term list holds the re-run item exactly when the immediate
\* list is not empty, and at most once; the CI/CD and monitoring items of the
\* short-term list and the dependency-update and training items of the
\* long-term list are there for every ledger.
C23_StandardRecommendations ==
  recommendations # undefinedObject =>
    /\ Occurrences(recommendations.shortTerm, RerunItem)
         = (IF Len(recommendations.immediate) > 0 THEN 1 ELSE 0)
    /\ Occurrences(recommendations.shortTerm,
                   "Integrate security scanning into CI/CD pipeline") = 1
    /\ Occurrences(recommendations.shortTerm, "Set up automated security monitoring") = 1
    /\ Occurrences(recommendations.longTerm, "Schedule regular dependency updates") = 1
    /\ Occurrences(recommendations.longTerm,
                   "Add security training for development team") = 1

\* the recommendations of scenario C: osv-scanner failed, so an immediate hint
\* exists and the re-run item leads the short-term list
C23_Witness ==
  /\ scanResults = ScenarioC
  /\ recommendations # undefinedObject
  /\ Len(recommendations.immediate) = 1
  /\ recommendations.shortTerm[1] = RerunItem
  /\ Len(recommendations.shortTerm) = 3

\* C24: in the ledger of a scanAll or comprehensiveVibe run no tool has two
\* outcomes, only a SUCCESS outcome carries a finding tally, and only a FAILED
\* outcome carries an error message.
C24_OutcomesWellFormed ==
  command \in {"scanAll", "comprehensiveVibe"} =>
    /\ \A i, j \in DOMAIN scanResults :
         scanResults[i].tool = scanResults[j].tool => i = j
    /\ \A i \in DOMAIN scanResults :
         /\ scanResults[i].additionalData # undefinedObject =>
              scanResults[i].status = "SUCCESS"
         /\ scanResults[i].error # undefined => scanResults[i].status = "FAILED"

\* the place of a tool in a list of tools
IndexIn(list, tool) == CHOOSE i \in DOMAIN list : list[i] = tool

\* C25: every outcome that is not SKIPPED stands in the ledger only once its
\* own tool has been invoked, the outcomes stand in the order in which the
\* tools were executed, and a generated report carries the ledger unchanged as
\* its tools.
C25_LedgerInExecutionOrder ==
  command \in {"scanAll", "comprehensiveVibe"} =>
    /\ \A i \in DOMAIN scanResults :
         scanResults[i].status # "SKIPPED" => scanResults[i].tool \in invoked
    /\ \A i, j \in DOMAIN scanResults :
         i < j => IndexIn(ExecutionOrder, scanResults[i].tool)
                    < IndexIn(ExecutionOrder, scanResults[j].tool)
    /\ \A k \in DOMAIN reports : reports[k].tools = scanResults

\* a summary document without a "## Priorities" or without a
\* "## Recommendations" section
Deviates(file) ==
  /\ file.exists
  /\ \/ IndexOfFrom(file.content, TxtPriorities, 1) = 0
     \/ IndexOfFrom(file.content, TxtRecommendations, 1) = 0

\* C26: a report generated with AI included from a summary document that lacks
\* the priorities or the recommendations section has no aiAnalysis, and its
\* total is the base score of the ledger.
C26_MalformedSummaryIgnored ==
  \A i \in DOMAIN reports :
    (includeAi /\ Deviates(summaryFile)) =>
      /\ reports[i].aiAnalysis = undefinedObject
      /\ reports[i].overallScore.total = calculateScores(scanResults).total

\* the tools a command needs: those of its scans, and playwright for UI tests
RequiredTools ==
  CASE command \in StandaloneScans -> toolMap(command)
    [] command \in {"uiTest", "uiRun"} -> {"playwright"}
    [] command = "scanAll" -> getRequiredTools(planScanTypes)
    [] command = "comprehensiveVibe" -> getRequiredTools(planScanTypes) \cup {"playwright"}

\* C27: in every command, with --skip-install nothing is installed and nothing
\* is asked; with --auto-install and without --skip-install nothing is asked
\* and, once the command is through, every missing required tool has had an
\* install attempt; a prompt is issued only with neither flag and a required
\* tool missing.
C27_InstallFlagsObeyed ==
  command \in InstallCommands =>
    /\ opts.skipInstall => (installer.attempts = {} /\ installer.prompts = 0)
    /\ (opts.autoInstall /\ ~opts.skipInstall) =>
         /\ installer.prompts = 0
         /\ pc = "done" => (RequiredTools \cap installer.missing) \subseteq installer.attempts
    /\ installer.prompts > 0 =>
         (~opts.skipInstall /\ ~opts.autoInstall /\ RequiredTools \cap installer.missing # {})

\* C28: a report generated with AI included from the ai/summary.md that
\* generateExecutiveSummary wrote for a priority list carries exactly that list
\* as aiAnalysis.priorities, and its total is the base score less the penalty
\* of that list, floored at 0.
C28_PrioritiesRoundTrip ==
  \A i \in DOMAIN reports :
    \A o \in SummaryObjects :
      (includeAi /\ summaryFile = File(saveArtifact(renderSummary(o)))) =>
        /\ reports[i].aiAnalysis # undefinedObject
        /\ reports[i].aiAnalysis.priorities = o.priorities
        /\ reports[i].overallScore.total
             = Max(calculateScores(scanResults).total - aiPenalty(o.priorities), 0)

\* C29: a scan command invoked as a step of scanAll or comprehensiveVibe never
\* terminates the process, whatever its tool returned: while the run is at one
\* of its scan steps the process has not exited.
C29_StepsNeverExit ==
  (command \in {"scanAll", "comprehensiveVibe"} /\ pc \in {"code", "deps", "secrets", "zap"}) =>
    exitStatus.state # "exit"

\* the calls of the run that returned usage
UsageCalls == SelectSeq(aiCalls, LAMBDA u : u # undefinedObject)

\* the tokens one call reports, under either set of field names
PromptOf(u) == UsageField(u, "promptTokens") + UsageField(u, "input_tokens")
CompletionOf(u) == UsageField(u, "completionTokens") + UsageField(u, "output_tokens")
TotalOf(u) ==
  IF "totalTokens" \in DOMAIN u THEN u.totalTokens ELSE PromptOf(u) + CompletionOf(u)

\* C30: the aiUsage of the report counts the calls of this run that returned
\* usage and holds the sums of their prompt, completion and total tokens,
\* whatever earlier runs left in total-usage.json; and once a call has returned
\* usage, total-usage.json holds the counters of the service in use.
C30_UsageCountedPerRun ==
  /\ \A i \in DOMAIN reports :
       reports[i].aiUsage # undefinedObject =>
         /\ reports[i].aiUsage.totalCalls = Len(UsageCalls)
         /\ reports[i].aiUsage.promptTokens
              = SumSeq([k \in DOMAIN UsageCalls |-> PromptOf(UsageCalls[k])])
         /\ reports[i].aiUsage.completionTokens
              = SumSeq([k \in DOMAIN UsageCalls |-> CompletionOf(UsageCalls[k])])
         /\ reports[i].aiUsage.totalTokens
              = SumSeq([k \in DOMAIN UsageCalls |-> TotalOf(UsageCalls[k])])
  /\ (totalUsage # undefinedObject /\ UsageCalls # <<>>) => usageFile = UsageFile(totalUsage)

====
